---- MODULE Spec2Model ----
(***************************************************************************)
(* Model of the ovs_exporter PMD diagnostic-text parsers, the multi-source *)
(* merger and the metric cache of the Exporter.                            *)
(*                                                                         *)
(* A line of diagnostic text is represented by what each regular           *)
(* expression of the parsers finds in it: a function from pattern names to *)
(* the tuple of captured tokens (the empty tuple when the pattern does not *)
(* match).  A \d+ token is [n, fits]: its value and whether the value fits *)
(* an unsigned 64-bit integer (strconv.ParseUint fails when it does not).  *)
(* Map values of Go are references: the histogram maps live in hmaps and   *)
(* records hold their indices.                                             *)
(***************************************************************************)
EXTENDS Integers, Sequences, FiniteSets, TLC

VARIABLES
    parser,            \* which record builder runs: "enhanced" or "basic"
    text,              \* the input split into lines, as bufio.Scanner yields them
    pos,               \* number of lines already scanned
    pmetrics,          \* var metrics []...: the records appended so far
    currentMetric,     \* *currentMetric: <<>> is nil, <<r>> points to record r
    currentHistogram,  \* 0 is nil, otherwise the index in hmaps of the active map
    hmaps,             \* heap of histogram maps created by make(map[string]uint64)
    pdone,             \* the parse function has returned
    dropCounters,      \* GetDropCounters: the map being filled
    dropErr,           \* GetDropCounters: the error it returns, "" for nil
    pc,                \* where each caller of Collect is
    loc,               \* the local variables of each caller
    now,               \* time.Now().Unix()
    pollInterval,      \* e.pollInterval
    nextCollectionTicker, \* e.nextCollectionTicker
    metrics,           \* e.metrics
    rwWriter,          \* the holder of e.Lock(), "none" if free
    rwReaders,         \* the holders of e.RLock()
    errors,            \* e.errors
    totalRequests,     \* e.totalRequests
    builds,            \* history: the number of rebuilds begun, and the call time,
                       \* poll interval and ticker of the last one that completed
    ncalls,            \* history: the number of Collect calls made
    env,               \* what the sources of this deployment can answer
    parses,            \* history: the record-builder calls that returned, each with
                       \* its text and what it returned
    idFile,            \* GetSystemIDFromFile: whether the file can be opened, and
                       \* its lines, each a sequence of characters
    idPos,             \* the number of lines scanner.Scan() has yielded
    systemID,          \* var systemID string
    idReadErr,         \* scanner.Err() != nil
    idOut,             \* <<>>, or <<r>> once the function has returned r
    sidPc,             \* where Connect is: "off", "db", "fallback", "connect",
                       \* "sysinfo", "done"; "file" is GetSystemIDFromFile alone
    sidEnv,            \* what ovs-vsctl answers, and e.Client.System.ID at entry
    clientSystemID,    \* e.Client.System.ID
    sidErr,            \* what GetSystemID returned, "" for nil
    clientCalls,       \* history: the calls of e.Client made by Connect
    connectOut         \* <<>>, or <<err>> once Connect has returned err

pvars == <<parser, text, pos, pmetrics, currentMetric, currentHistogram, hmaps, pdone>>

dvars == <<dropCounters, dropErr>>

cvars == <<pc, loc, now, pollInterval, nextCollectionTicker, metrics, rwWriter,
           rwReaders, errors, totalRequests, builds, ncalls, env>>

hvars == <<parses>>

gvars == <<sidPc, sidEnv, clientSystemID, sidErr, clientCalls, connectOut>>

svars == <<idFile, idPos, systemID, idReadErr, idOut, gvars>>

vars == <<pvars, dvars, cvars, hvars, svars>>

-----------------------------------------------------------------------------
(* Bounds of the model *)

MaxLines == 4

\* the clock runs from 0 to MaxTime
MaxTime == 2

\* the poll intervals SetPollInterval is given: 0..MaxPoll
MaxPoll == 1

\* the number of Collect calls of a behaviour
MaxCalls == 2

-----------------------------------------------------------------------------
(* The callers of Collect *)

Procs == {"c1", "c2"}

\* no Exporter is in use: the state of the cache while a parser is studied alone
CacheOff ==
    /\ pc = [p \in Procs |-> "off"]
    /\ loc = [p \in Procs |-> <<>>]
    /\ now = 0
    /\ pollInterval = 0
    /\ nextCollectionTicker = 0
    /\ metrics = <<>>
    /\ rwWriter = "none"
    /\ rwReaders = {}
    /\ errors = 0
    /\ totalRequests = 0
    /\ builds = [begun |-> 0, t |-> 0, poll |-> 0, ticker |-> 0]
    /\ ncalls = 0
    /\ env = <<>>

\* GetSystemIDFromFile is not in use
\* the system id of ovsdb.NewOvsClient()
Unknown == <<"u">>

\* Connect is not in use; at is "file" when GetSystemIDFromFile is called alone
ConnectOff(at) ==
    /\ sidPc = at
    /\ sidEnv = [db |-> [err |-> "", out |-> <<>>], before |-> Unknown]
    /\ clientSystemID = Unknown
    /\ sidErr = ""
    /\ clientCalls = <<>>
    /\ connectOut = <<>>

IdOff ==
    /\ idFile = [exists |-> FALSE, lines |-> <<>>]
    /\ idPos = 0
    /\ systemID = <<>>
    /\ idReadErr = FALSE
    /\ idOut = <<>>
    /\ ConnectOff("off")

-----------------------------------------------------------------------------
(* Tokens and lines *)

NoMatch == <<>>

UTok(n) == [n |-> n, fits |-> TRUE]

\* a run of digits whose value exceeds 2^64 - 1
UBig == [n |-> 0, fits |-> FALSE]

\* mutant of ParseUint: the range error is not reported
ParseUintUnchecked(tok) == [err |-> FALSE, val |-> tok.n]

\* strconv.ParseUint(s, 10, 64) on a \d+ capture
ParseUint(tok) == [err |-> ~tok.fits, val |-> IF tok.fits THEN tok.n ELSE 0]

\* a [\d.]+ token: its value in tenths, and whether strconv.ParseFloat accepts it
FTok(v) == [n |-> v, ok |-> TRUE]

\* a [\d.]+ token that is no number, such as "1.2.3"
FBad == [n |-> 0, ok |-> FALSE]

\* strconv.ParseFloat(s, 64) on a [\d.]+ capture
ParseFloat(tok) == [err |-> ~tok.ok, val |-> IF tok.ok THEN tok.n ELSE 0]

\* uint64(val * 1000000) for val in tenths
Mcycles(v) == v * 100000

\* the compiled patterns of parseEnhancedPmdOutput, in declaration order
EnhancedPatterns ==
    <<"pmdHeaderRe", "cpuUtilRe", "idleCyclesRe", "busyCyclesRe", "iterationsRe",
      "sleepIterRe", "cyclesPerItRe", "pktsPerItRe", "cyclesPerPktRe",
      "pktsPerBatchRe", "rxBatchRe", "txBatchRe", "rxPacketsRe", "txPacketsRe",
      "maxVhostQRe", "avgVhostQRe", "vhostFullRe", "upcallsRe", "avgUpcallRe",
      "txRetriesRe", "txContentionRe", "txIrqsRe", "exactHitRe", "maskedHitRe",
      "missRe", "lostRe", "suspiciousRe", "histogramRe", "histogramEntryRe">>

\* the patterns of parsePmdPerfOutput whose text differs from the enhanced ones
BasicPatterns == <<"basicIterationsRe", "basicBusyCyclesRe", "basicMaxVhostQRe">>

\* the pattern of GetDropCounters
DropPatterns == <<"coverageRe">>

Range(f) == {f[i] : i \in DOMAIN f}

Patterns == Range(EnhancedPatterns) \cup Range(BasicPatterns) \cup Range(DropPatterns)

\* a line given by the patterns that match it
Ln(found) ==
    [re \in Patterns |-> IF re \in DOMAIN found THEN found[re] ELSE NoMatch]

\* The lines the model draws its texts from.  A text holds the names of its lines.
LineTable ==
    [H01      |-> Ln([pmdHeaderRe |-> <<"0", "1">>]),
     H12      |-> Ln([pmdHeaderRe |-> <<"1", "2">>]),
     Iter     |-> Ln([iterationsRe |-> <<UTok(100), FTok(10)>>,
                      basicIterationsRe |-> <<UTok(100)>>]),
     Iter2    |-> Ln([iterationsRe |-> <<UTok(200), FTok(20)>>,
                      basicIterationsRe |-> <<UTok(200)>>]),
     IterBig  |-> Ln([iterationsRe |-> <<UBig, FTok(30)>>,
                      basicIterationsRe |-> <<UBig>>]),
     IterBad  |-> Ln([iterationsRe |-> <<UTok(300), FBad>>,
                      basicIterationsRe |-> <<UTok(300)>>]),
     Sleep    |-> Ln([sleepIterRe |-> <<UTok(40), FTok(400)>>]),
     SleepAll |-> Ln([sleepIterRe |-> <<UTok(300), FTok(1000)>>]),
     MissLost |-> Ln([missRe |-> <<UTok(3)>>, lostRe |-> <<UTok(4)>>]),
     BusyMiss |-> Ln([busyCyclesRe |-> <<FTok(400), FTok(30)>>,
                      basicBusyCyclesRe |-> <<FTok(400), FTok(30)>>,
                      missRe |-> <<UTok(6)>>]),
     HCycles  |-> Ln([histogramRe |-> <<"Cycles">>]),
     HPackets |-> Ln([histogramRe |-> <<"packets">>]),
     HOther   |-> Ln([histogramRe |-> <<"rx">>]),
     E5       |-> Ln([histogramEntryRe |-> <<"0-10", UTok(5)>>]),
     E7       |-> Ln([histogramEntryRe |-> <<"0-10", UTok(7)>>]),
     EBig     |-> Ln([histogramEntryRe |-> <<"10+", UBig>>]),
     HE       |-> Ln([histogramRe |-> <<"batch">>,
                      histogramEntryRe |-> <<"10+", UTok(9)>>]),
     Prose    |-> Ln(<<>>)]

\* regexp.FindStringSubmatch: the captures, NoMatch for nil
Match(re, line) == LineTable[line][re]

\* strings.ToLower on the section names the model uses
ToLower(s) == CASE s = "Cycles" -> "cycles"
                [] s = "Packets" -> "packets"
                [] OTHER -> s

-----------------------------------------------------------------------------
(* Records *)

\* &EnhancedPmdMetrics{NumaID, CoreID, PmdID, three fresh maps}: every other
\* field has Go's zero value; h is the index of the first of the three maps
NewEnhancedPmdMetrics(numa, core, h) ==
    [PmdID |-> core, NumaID |-> numa, CoreID |-> core,
     CPUUtilization |-> 0, IdleCycles |-> 0, BusyCycles |-> 0, TotalCycles |-> 0,
     Iterations |-> 0, SleepIterations |-> 0, BusyIterations |-> 0,
     CyclesPerIteration |-> 0, UsPerIteration |-> 0,
     PacketsPerIteration |-> 0, CyclesPerPacket |-> 0, PacketsPerBatch |-> 0,
     TotalPackets |-> 0,
     RxBatches |-> 0, RxPackets |-> 0, AvgRxBatchSize |-> 0, MaxRxBatchSize |-> 0,
     TxBatches |-> 0, TxPackets |-> 0, AvgTxBatchSize |-> 0,
     MaxVhostQueueLength |-> 0, AvgVhostQueueLength |-> 0, VhostQueueFull |-> 0,
     Upcalls |-> 0, UpcallCycles |-> 0, AvgUpcallCycles |-> 0,
     VhostTxRetries |-> 0, VhostTxContention |-> 0, VhostTxIrqs |-> 0,
     ExactMatchHit |-> 0, MaskedHit |-> 0, Miss |-> 0, Lost |-> 0,
     CyclesHistogram |-> h, PacketsHistogram |-> h + 1, BatchSizeHistogram |-> h + 2,
     SuspiciousIterations |-> 0, SuspiciousPercent |-> 0]

\* mutant of NewPmdPerformanceMetrics: the counters of the new record are not
\* zero
NewPmdPerformanceMetricsStale(numa, core) ==
    [PmdID |-> core, NumaID |-> numa,
     Iterations |-> 100, BusyCycles |-> 0, CyclesPerIteration |-> 0,
     PacketsPerIteration |-> 0, CyclesPerPacket |-> 0, PacketsPerBatch |-> 0,
     MaxVhostQueueLength |-> 0, Upcalls |-> 0, UpcallCycles |-> 0,
     TxRetries |-> 0, TxContention |-> 0, TxIrqs |-> 0]

\* &PmdPerformanceMetrics{NumaID, PmdID}
NewPmdPerformanceMetrics(numa, core) ==
    [PmdID |-> core, NumaID |-> numa,
     Iterations |-> 0, BusyCycles |-> 0, CyclesPerIteration |-> 0,
     PacketsPerIteration |-> 0, CyclesPerPacket |-> 0, PacketsPerBatch |-> 0,
     MaxVhostQueueLength |-> 0, Upcalls |-> 0, UpcallCycles |-> 0,
     TxRetries |-> 0, TxContention |-> 0, TxIrqs |-> 0]

-----------------------------------------------------------------------------
(* The field matcher set.  One rule per assignment: pattern, capture group, *)
(* conversion and target field, in the order the scanning loop tries them.  *)
(* kind "uint" is ParseUint, "float" is ParseFloat, "mcycles" is ParseFloat *)
(* followed by uint64(val * 1000000), "sleep" is the sleep-iterations rule, *)
(* which also sets BusyIterations = Iterations - val.                       *)

Rule(re, cap, kind, field) == [re |-> re, cap |-> cap, kind |-> kind, field |-> field]

EnhancedRules ==
    << Rule("cpuUtilRe", 1, "float", "CPUUtilization"),
       Rule("idleCyclesRe", 2, "mcycles", "IdleCycles"),
       Rule("busyCyclesRe", 1, "float", "CPUUtilization"),
       Rule("busyCyclesRe", 2, "mcycles", "BusyCycles"),
       Rule("iterationsRe", 1, "uint", "Iterations"),
       Rule("iterationsRe", 2, "float", "UsPerIteration"),
       Rule("sleepIterRe", 1, "sleep", "SleepIterations"),
       Rule("cyclesPerItRe", 1, "float", "CyclesPerIteration"),
       Rule("pktsPerItRe", 1, "float", "PacketsPerIteration"),
       Rule("cyclesPerPktRe", 1, "float", "CyclesPerPacket"),
       Rule("pktsPerBatchRe", 1, "float", "PacketsPerBatch"),
       Rule("rxBatchRe", 1, "uint", "RxBatches"),
       Rule("rxBatchRe", 2, "float", "AvgRxBatchSize"),
       Rule("rxBatchRe", 3, "uint", "MaxRxBatchSize"),
       Rule("rxPacketsRe", 1, "uint", "RxPackets"),
       Rule("txBatchRe", 1, "uint", "TxBatches"),
       Rule("txBatchRe", 2, "float", "AvgTxBatchSize"),
       Rule("txPacketsRe", 1, "uint", "TxPackets"),
       Rule("maxVhostQRe", 1, "uint", "MaxVhostQueueLength"),
       Rule("avgVhostQRe", 1, "float", "AvgVhostQueueLength"),
       Rule("vhostFullRe", 1, "uint", "VhostQueueFull"),
       Rule("upcallsRe", 1, "uint", "Upcalls"),
       Rule("upcallsRe", 3, "mcycles", "UpcallCycles"),
       Rule("avgUpcallRe", 1, "float", "AvgUpcallCycles"),
       Rule("txRetriesRe", 1, "uint", "VhostTxRetries"),
       Rule("txContentionRe", 1, "uint", "VhostTxContention"),
       Rule("txIrqsRe", 1, "uint", "VhostTxIrqs"),
       Rule("exactHitRe", 1, "uint", "ExactMatchHit"),
       Rule("maskedHitRe", 1, "uint", "MaskedHit"),
       Rule("missRe", 1, "uint", "Miss"),
       Rule("lostRe", 1, "uint", "Lost"),
       Rule("suspiciousRe", 1, "uint", "SuspiciousIterations"),
       Rule("suspiciousRe", 2, "float", "SuspiciousPercent") >>

BasicRules ==
    << Rule("basicIterationsRe", 1, "uint", "Iterations"),
       Rule("basicBusyCyclesRe", 2, "mcycles", "BusyCycles"),
       Rule("cyclesPerItRe", 1, "float", "CyclesPerIteration"),
       Rule("pktsPerItRe", 1, "float", "PacketsPerIteration"),
       Rule("cyclesPerPktRe", 1, "float", "CyclesPerPacket"),
       Rule("pktsPerBatchRe", 1, "float", "PacketsPerBatch"),
       Rule("basicMaxVhostQRe", 1, "uint", "MaxVhostQueueLength"),
       Rule("upcallsRe", 1, "uint", "Upcalls"),
       Rule("upcallsRe", 3, "mcycles", "UpcallCycles"),
       Rule("txRetriesRe", 1, "uint", "TxRetries"),
       Rule("txContentionRe", 1, "uint", "TxContention"),
       Rule("txIrqsRe", 1, "uint", "TxIrqs") >>

\* one "if matches := re.FindStringSubmatch(line); matches != nil { if val, err :=
\* strconv.Parse...(matches[cap]); err == nil { rec.field = val } }" of the loop.
\* Unsigned values are kept as signed ones of the same bits, so Iterations - val
\* below zero is the wrapped uint64.
ApplyRule(rec, rule, line) ==
    LET m == Match(rule.re, line) IN
    IF m = NoMatch THEN rec
    ELSE IF rule.kind = "uint" THEN
        LET r == ParseUint(m[rule.cap]) IN
        IF r.err THEN rec ELSE [rec EXCEPT ![rule.field] = r.val]
    ELSE IF rule.kind = "float" THEN
        LET r == ParseFloat(m[rule.cap]) IN
        IF r.err THEN rec ELSE [rec EXCEPT ![rule.field] = r.val]
    ELSE IF rule.kind = "mcycles" THEN
        LET r == ParseFloat(m[rule.cap]) IN
        IF r.err THEN rec ELSE [rec EXCEPT ![rule.field] = Mcycles(r.val)]
    ELSE
        LET r == ParseUint(m[rule.cap]) IN
        IF r.err THEN rec
        ELSE [rec EXCEPT !.SleepIterations = r.val,
                         !.BusyIterations = rec.Iterations - r.val]

RECURSIVE ApplyRules(_, _, _, _)
\* the field blocks of one loop iteration, from rule i on
ApplyRules(rec, rules, i, line) ==
    IF i > Len(rules) THEN rec
    ELSE ApplyRules(ApplyRule(rec, rules[i], line), rules, i + 1, line)

-----------------------------------------------------------------------------
(* The record builders.  A builder state is [metrics, cur, hist, maps]:     *)
(* the output slice, the currentMetric pointer, the currentHistogram        *)
(* pointer and the heap of histogram maps.                                  *)

EmptyMap == [l \in {} |-> 0]

\* (*currentHistogram)[label] = val
MapPut(m, label, val) ==
    [l \in DOMAIN m \cup {label} |-> IF l = label THEN val ELSE m[l]]

\* mutant of BuilderInit: a record is in progress before the first line
BuilderWithRecord ==
    [metrics |-> <<>>,
     cur |-> <<NewEnhancedPmdMetrics("0", "0", 1)>>,
     hist |-> 0, maps |-> <<EmptyMap, EmptyMap, EmptyMap>>]

\* var metrics []EnhancedPmdMetrics; var currentMetric *EnhancedPmdMetrics;
\* var currentHistogram *map[string]uint64
BuilderInit == [metrics |-> <<>>, cur |-> <<>>, hist |-> 0, maps |-> <<>>]

\* mutant of AppendCurrent: the record is put in front of the list
AppendCurrentInFront(list, cur) ==
    IF cur = <<>> THEN list ELSE <<cur[1]>> \o list

\* if currentMetric != nil { metrics = append(metrics, *currentMetric) }
AppendCurrent(list, cur) ==
    IF cur = <<>> THEN list ELSE Append(list, cur[1])

\* mutant of HistogramAfterHeader: the pointer is not reset
HistogramKeptAfterHeader(hist) == hist

\* currentHistogram = nil, on a thread header
HistogramAfterHeader(hist) == 0

\* switch histogramType { case "cycles": ... default: currentHistogram = nil }
SelectHistogram(rec, histogramType) ==
    CASE histogramType = "cycles" -> rec.CyclesHistogram
      [] histogramType = "packets" -> rec.PacketsHistogram
      [] histogramType = "batch" -> rec.BatchSizeHistogram
      [] OTHER -> 0

\* the histogram-entry block: writes through currentHistogram
HistogramEntry(st, line) ==
    LET m == Match("histogramEntryRe", line) IN
    IF st.hist = 0 \/ m = NoMatch THEN st
    ELSE LET r == ParseUint(m[2]) IN
         IF r.err THEN st
         ELSE [st EXCEPT !.maps[st.hist] = MapPut(st.maps[st.hist], m[1], r.val)]

\* one iteration of the scanning loop of parseEnhancedPmdOutput
EnhancedLoop(st, line) ==
    LET hdr == Match("pmdHeaderRe", line) IN
    IF hdr # NoMatch THEN
        [metrics |-> AppendCurrent(st.metrics, st.cur),
         cur |-> <<NewEnhancedPmdMetrics(hdr[1], hdr[2], Len(st.maps) + 1)>>,
         hist |-> HistogramAfterHeader(st.hist),
         maps |-> st.maps \o <<EmptyMap, EmptyMap, EmptyMap>>]
    ELSE IF st.cur = <<>> THEN st
    ELSE
        LET rec == ApplyRules(st.cur[1], EnhancedRules, 1, line)
            st1 == [st EXCEPT !.cur = <<rec>>]
            hm == Match("histogramRe", line)
        IN  IF hm # NoMatch
            THEN [st1 EXCEPT !.hist = SelectHistogram(rec, ToLower(hm[1]))]
            ELSE HistogramEntry(st1, line)

\* "Calculate total cycles and packets if not set", on the last record only;
\* PacketsPerIteration is in tenths
DerivedFields(rec) ==
    LET r1 == IF rec.TotalCycles = 0
              THEN [rec EXCEPT !.TotalCycles = rec.BusyCycles + rec.IdleCycles]
              ELSE rec
    IN  IF r1.TotalPackets = 0 /\ r1.Iterations # 0
        THEN [r1 EXCEPT !.TotalPackets = (r1.Iterations * r1.PacketsPerIteration) \div 10]
        ELSE r1

\* after the loop of parseEnhancedPmdOutput: "Add the last metric if exists"
EnhancedFinish(st) ==
    IF st.cur = <<>> THEN st
    ELSE [st EXCEPT !.metrics = AppendCurrent(st.metrics, <<DerivedFields(st.cur[1])>>)]

\* one iteration of the scanning loop of parsePmdPerfOutput
BasicLoop(st, line) ==
    LET hdr == Match("pmdHeaderRe", line) IN
    IF hdr # NoMatch THEN
        [st EXCEPT !.metrics = AppendCurrent(st.metrics, st.cur),
                   !.cur = <<NewPmdPerformanceMetrics(hdr[1], hdr[2])>>]
    ELSE IF st.cur = <<>> THEN st
    ELSE [st EXCEPT !.cur = <<ApplyRules(st.cur[1], BasicRules, 1, line)>>]

\* after the loop of parsePmdPerfOutput
BasicFinish(st) == [st EXCEPT !.metrics = AppendCurrent(st.metrics, st.cur)]

RECURSIVE EnhancedScan(_, _, _)
EnhancedScan(st, lines, i) ==
    IF i > Len(lines) THEN st ELSE EnhancedScan(EnhancedLoop(st, lines[i]), lines, i + 1)

\* parseEnhancedPmdOutput(output): the records, with their maps resolved
parseEnhancedPmdOutput(lines) == EnhancedFinish(EnhancedScan(BuilderInit, lines, 1))

RECURSIVE BasicScan(_, _, _)
BasicScan(st, lines, i) ==
    IF i > Len(lines) THEN st ELSE BasicScan(BasicLoop(st, lines[i]), lines, i + 1)

\* parsePmdPerfOutput(output)
parsePmdPerfOutput(lines) == BasicFinish(BasicScan(BuilderInit, lines, 1))

\* the lines of the texts with captures that do not convert
FieldAlphabet == {"H01", "Iter", "IterBig", "IterBad", "MissLost", "BusyMiss",
                  "HCycles", "EBig"}

-----------------------------------------------------------------------------
(* The record builders, one line per step *)

ParseAlphabet == {"H01", "H12", "Iter", "HCycles", "HPackets", "HOther",
                  "E5", "E7", "EBig", "HE"}

RECURSIVE SeqsUpTo(_, _)
\* the sequences over S of length at most n
SeqsUpTo(S, n) ==
    IF n = 0 THEN {<<>>}
    ELSE LET shorter == SeqsUpTo(S, n - 1)
         IN  shorter \cup {Append(t, x) : t \in shorter, x \in S}

ParseIdle ==
    /\ parser = "none"
    /\ text = <<>>
    /\ pos = 0
    /\ pmetrics = <<>>
    /\ currentMetric = <<>>
    /\ currentHistogram = 0
    /\ hmaps = <<>>
    /\ pdone = FALSE

\* entry of parseEnhancedPmdOutput / parsePmdPerfOutput on a text
InitParse ==
    /\ parser \in {"enhanced", "basic"}
    /\ text \in SeqsUpTo(ParseAlphabet, MaxLines)
    /\ pos = 0
    /\ pmetrics = BuilderInit.metrics
    /\ currentMetric = BuilderInit.cur
    /\ currentHistogram = BuilderInit.hist
    /\ hmaps = BuilderInit.maps
    /\ pdone = FALSE
    /\ dropCounters = EmptyMap
    /\ dropErr = ""
    /\ parses = <<>>
    /\ IdOff
    /\ CacheOff

Builder == [metrics |-> pmetrics, cur |-> currentMetric,
            hist |-> currentHistogram, maps |-> hmaps]

SetBuilder(st) ==
    /\ pmetrics' = st.metrics
    /\ currentMetric' = st.cur
    /\ currentHistogram' = st.hist
    /\ hmaps' = st.maps

\* for scanner.Scan() { line := scanner.Text(); ... }
ScanLine ==
    /\ parser \in {"enhanced", "basic"}
    /\ ~pdone
    /\ pos < Len(text)
    /\ pos' = pos + 1
    /\ SetBuilder(IF parser = "enhanced"
                  THEN EnhancedLoop(Builder, text[pos + 1])
                  ELSE BasicLoop(Builder, text[pos + 1]))
    /\ UNCHANGED <<parser, text, pdone, dvars, cvars, hvars, svars>>

\* the records of a builder state, each histogram field holding its map
Records(st) ==
    [i \in 1..Len(st.metrics) |->
        [st.metrics[i] EXCEPT !.CyclesHistogram = st.maps[@],
                              !.PacketsHistogram = st.maps[@],
                              !.BatchSizeHistogram = st.maps[@]]]

\* what a record builder returns: parseEnhancedPmdOutput returns metrics,
\* parsePmdPerfOutput returns metrics, nil
ParseResult(which, st) ==
    [out |-> IF which = "enhanced" THEN Records(st) ELSE st.metrics, err |-> ""]

\* scanner.Scan() returns false: the code after the loop, and the return
ParseReturn ==
    /\ parser \in {"enhanced", "basic"}
    /\ ~pdone
    /\ pos = Len(text)
    /\ pdone' = TRUE
    /\ LET st == IF parser = "enhanced" THEN EnhancedFinish(Builder)
                                        ELSE BasicFinish(Builder)
           r == ParseResult(parser, st)
       IN  /\ SetBuilder(st)
           /\ parses' = Append(parses, [parser |-> parser, text |-> text,
                                        out |-> r.out, err |-> r.err])
    /\ UNCHANGED <<parser, text, pos, dvars, cvars, svars>>

NextParse == ScanLine \/ ParseReturn

SpecParse == InitParse /\ [][NextParse]_vars

\* the parses of the texts over FieldAlphabet
InitFields ==
    /\ parser \in {"enhanced", "basic"}
    /\ text \in SeqsUpTo(FieldAlphabet, MaxLines)
    /\ pos = 0
    /\ pmetrics = BuilderInit.metrics
    /\ currentMetric = BuilderInit.cur
    /\ currentHistogram = BuilderInit.hist
    /\ hmaps = BuilderInit.maps
    /\ pdone = FALSE
    /\ dropCounters = EmptyMap
    /\ dropErr = ""
    /\ parses = <<>>
    /\ IdOff
    /\ CacheOff

SpecFields == InitFields /\ [][NextParse]_vars

\* the lines of the texts with iteration counts and sleep-iteration counts
IterAlphabet == {"H01", "Iter", "Sleep", "SleepAll"}

\* the parses of the texts over IterAlphabet
InitIter ==
    /\ parser \in {"enhanced", "basic"}
    /\ text \in SeqsUpTo(IterAlphabet, MaxLines)
    /\ pos = 0
    /\ pmetrics = BuilderInit.metrics
    /\ currentMetric = BuilderInit.cur
    /\ currentHistogram = BuilderInit.hist
    /\ hmaps = BuilderInit.maps
    /\ pdone = FALSE
    /\ dropCounters = EmptyMap
    /\ dropErr = ""
    /\ parses = <<>>
    /\ IdOff
    /\ CacheOff

SpecIter == InitIter /\ [][NextParse]_vars

\* The record builders called again and again.  The second call is given the
\* first text again or one of the texts of Between; every later call is given
\* the first text and is made of the first builder.

\* the number of calls of a behaviour
MaxParses == 3

Between == {<<>>, <<"H12", "Iter">>, <<"H01", "HCycles", "E7">>}

\* mutant of FreshBuilder: the output slice outlives the call, and is met again
\* by the next call of the same builder
CarriedBuilder(which, prev) ==
    IF \A i \in DOMAIN prev.metrics :
            ("CoreID" \in DOMAIN prev.metrics[i]) <=> (which = "enhanced")
    THEN [BuilderInit EXCEPT !.metrics = prev.metrics, !.maps = prev.maps]
    ELSE BuilderInit

\* var metrics, var currentMetric, var currentHistogram: locals of the call
\* of builder which, whatever state prev the last call ended in
FreshBuilder(which, prev) == BuilderInit

InitReparse ==
    /\ parser \in {"enhanced", "basic"}
    /\ text \in SeqsUpTo(ParseAlphabet, MaxLines - 1)
    /\ pos = 0
    /\ pmetrics = BuilderInit.metrics
    /\ currentMetric = BuilderInit.cur
    /\ currentHistogram = BuilderInit.hist
    /\ hmaps = BuilderInit.maps
    /\ pdone = FALSE
    /\ dropCounters = EmptyMap
    /\ dropErr = ""
    /\ parses = <<>>
    /\ IdOff
    /\ CacheOff

\* the next call of a record builder, after the last one returned
ParseAgain(which, t) ==
    /\ parser \in {"enhanced", "basic"}
    /\ pdone
    /\ Len(parses) < MaxParses
    /\ \/ which = parses[1].parser /\ t = parses[1].text
       \/ Len(parses) = 1 /\ t \in Between
    /\ parser' = which
    /\ text' = t
    /\ pos' = 0
    /\ pdone' = FALSE
    /\ SetBuilder(FreshBuilder(which, Builder))
    /\ UNCHANGED <<dvars, cvars, hvars, svars>>

NextReparse ==
    \/ ScanLine
    \/ ParseReturn
    \/ \E which \in {"enhanced", "basic"} :
         \E t \in Between \cup {parses[i].text : i \in DOMAIN parses} :
            ParseAgain(which, t)

SpecReparse == InitReparse /\ [][NextReparse]_vars

-----------------------------------------------------------------------------
(* GetDropCounters.  A line of coverage/show output is its whitespace-        *)
(* separated tokens and whether whitespace leads it; a token is its text and, *)
(* when it starts with digits, the \d+ run it starts with.                    *)

Word(w) == [text |-> w, num |-> <<>>]

Num(w, tok) == [text |-> w, num |-> <<tok>>]

CoverageTable ==
    [Meter42  |-> [lead |-> FALSE, toks |-> <<Word("datapath_drop_meter"), Num("42", UTok(42))>>],
     Meter7   |-> [lead |-> TRUE,  toks |-> <<Word("datapath_drop_meter"), Num("7", UTok(7))>>],
     Other7   |-> [lead |-> FALSE, toks |-> <<Word("other_counter"), Num("7", UTok(7))>>],
     CongRate |-> [lead |-> FALSE, toks |-> <<Word("drop_action_congestion"),
                                              Num("0.0/sec", UTok(0)), Word("total:"),
                                              Num("9", UTok(9))>>],
     LockBig  |-> [lead |-> FALSE, toks |-> <<Word("datapath_drop_lock_error"),
                                              Num("99999999999999999999", UBig)>>],
     Second   |-> [lead |-> FALSE, toks |-> <<Word("hash"), Word("datapath_drop_recirc_error"),
                                              Num("5", UTok(5))>>],
     Bare     |-> [lead |-> FALSE, toks |-> <<Word("datapath_drop_invalid_port")>>],
     Blank    |-> [lead |-> TRUE,  toks |-> <<>>]]

\* dropTypes: the drop counters GetDropCounters extracts
dropTypes ==
    {"datapath_drop_upcall_error", "datapath_drop_lock_error",
     "datapath_drop_rx_invalid_packet", "datapath_drop_meter",
     "datapath_drop_userspace_action_error", "datapath_drop_tunnel_push_error",
     "datapath_drop_tunnel_pop_error", "datapath_drop_recirc_error",
     "datapath_drop_invalid_port", "datapath_drop_invalid_tnl_port",
     "datapath_drop_sample_error", "datapath_drop_nsh_decap_error",
     "drop_action_of_pipeline", "drop_action_bridge_not_found",
     "drop_action_recursion_too_deep", "drop_action_too_many_resubmit",
     "drop_action_stack_too_deep", "drop_action_no_recirculation",
     "drop_action_recirculation_conflict", "drop_action_too_many_mpls_labels",
     "drop_action_invalid_tunnel_metadata", "drop_action_unsupported_packet_type",
     "drop_action_congestion", "drop_action_forwarding_disabled"}

\* strings.TrimSpace
TrimSpace(cline) == [cline EXCEPT !.lead = FALSE]

\* coverageRe = ^(\S+)\s+(\d+) on a line: the first token, and the digits the
\* second token starts with
MatchCoverage(cline) ==
    IF ~cline.lead /\ Len(cline.toks) >= 2 /\ cline.toks[2].num # <<>>
    THEN <<cline.toks[1].text, cline.toks[2].num[1]>>
    ELSE NoMatch

\* mutant of DropTypeKnown: every event name is taken
DropTypeAny(eventName) == TRUE

\* dropTypeMap[eventName]
DropTypeKnown(eventName) == eventName \in dropTypes

\* one iteration of the scanning loop of GetDropCounters
DropLoop(counters, cline) ==
    LET m == MatchCoverage(TrimSpace(cline)) IN
    IF m = NoMatch THEN counters
    ELSE IF ~DropTypeKnown(m[1]) THEN counters
    ELSE LET r == ParseUint(m[2]) IN
         IF r.err THEN counters ELSE MapPut(counters, m[1], r.val)

DropAlphabet == {"Meter42", "Meter7", "Other7", "CongRate", "LockBig", "Second",
                 "Bare", "Blank"}

\* entry of GetDropCounters: the command fails, or prints a text
InitDrop ==
    /\ parser = "drop"
    /\ text \in SeqsUpTo(DropAlphabet, MaxLines)
    /\ pos \in {-1, 0}
    /\ pmetrics = <<>>
    /\ currentMetric = <<>>
    /\ currentHistogram = 0
    /\ hmaps = <<>>
    /\ pdone = FALSE
    /\ dropCounters = EmptyMap
    /\ dropErr = ""
    /\ parses = <<>>
    /\ IdOff
    /\ CacheOff

\* cmd.Output() fails: return nil, fmt.Errorf("failed to get coverage: %w", err)
DropCommandFails ==
    /\ parser = "drop"
    /\ ~pdone
    /\ pos = -1
    /\ dropErr' = "failed to get coverage"
    /\ pdone' = TRUE
    /\ UNCHANGED <<parser, text, pos, pmetrics, currentMetric, currentHistogram,
                   hmaps, dropCounters, cvars, hvars, svars>>

\* for scanner.Scan() { ... } of GetDropCounters
DropScanLine ==
    /\ parser = "drop"
    /\ ~pdone
    /\ pos >= 0
    /\ pos < Len(text)
    /\ pos' = pos + 1
    /\ dropCounters' = DropLoop(dropCounters, CoverageTable[text[pos + 1]])
    /\ UNCHANGED <<parser, text, pmetrics, currentMetric, currentHistogram, hmaps,
                   pdone, dropErr, cvars, hvars, svars>>

\* return dropCounters, nil
DropReturn ==
    /\ parser = "drop"
    /\ ~pdone
    /\ pos = Len(text)
    /\ pdone' = TRUE
    /\ UNCHANGED <<parser, text, pos, pmetrics, currentMetric, currentHistogram,
                   hmaps, dropCounters, dropErr, cvars, hvars, svars>>

NextDrop == DropCommandFails \/ DropScanLine \/ DropReturn

SpecDrop == InitDrop /\ [][NextDrop]_vars

-----------------------------------------------------------------------------
(* The Exporter: Collect, GatherMetrics and the sources they call.  A sample  *)
(* of e.metrics is [name, label, build, val]; build is the rebuild that       *)
(* appended it.  Each group of samples that one source yields is represented  *)
(* by one sample.                                                             *)

Item(name, label, b, v) == [name |-> name, label |-> label, build |-> b, val |-> v]

\* the answers of an external command: the error of cmd.Output() ("" for nil)
\* and the text it printed
Answer(err, out) == [err |-> err, out |-> out]

ExitStatus == "exit status 2"

NotFound == "executable file not found"

\* mutant of ContainsExitStatus: no error is taken for a non-zero exit status
ContainsExitStatusNever(err) == FALSE

\* strings.Contains(err.Error(), "exit status")
ContainsExitStatus(err) == err = ExitStatus

\* the local variables of a Collect call
LocInit ==
    [tnow |-> 0, upValue |-> 1, build |-> 0, rpos |-> 0,
     primary |-> <<>>,       \* <<a>>: the answer of pmd-perf-show
     stats |-> <<>>,         \* <<a>>: the answer of pmd-stats-show
     enhanced |-> BuilderInit,  \* enhancedMetrics, with the maps they refer to
     perr |-> "",            \* the error of GetEnhancedPmdMetrics
     cover |-> <<>>,         \* <<a>>: the answer of coverage/show
     derr |-> "",            \* the error of GetDropCounters
     failures |-> 0]         \* history: the failures the call met in its sources

\* NewExporter, and the deployment it runs in
InitExporter(e) ==
    /\ pc = [p \in Procs |-> "idle"]
    /\ loc = [p \in Procs |-> LocInit]
    /\ now = 0
    /\ pollInterval = 0
    /\ nextCollectionTicker = 0
    /\ metrics = <<>>
    /\ rwWriter = "none"
    /\ rwReaders = {}
    /\ errors = 0
    /\ totalRequests = 0
    /\ builds = [begun |-> 0, t |-> 0, poll |-> 0, ticker |-> 0]
    /\ ncalls = 0
    /\ env = e
    /\ parser = "none"
    /\ text = <<>>
    /\ pos = 0
    /\ pmetrics = <<>>
    /\ currentMetric = <<>>
    /\ currentHistogram = 0
    /\ hmaps = <<>>
    /\ pdone = FALSE
    /\ dropCounters = EmptyMap
    /\ dropErr = ""
    /\ parses = <<>>
    /\ IdOff

\* mutant of Goto: coverage/show is asked where pmd-stats-show should be
GotoDropsFirst(p, label) ==
    pc' = [pc EXCEPT ![p] = IF label = "pmd_stats" THEN "pmd_drop" ELSE label]

\* mutant of Goto: the basic collection runs after the enhanced samples too
GotoBasicToo(p, label) ==
    pc' = [pc EXCEPT ![p] = IF label = "pmd_drop" THEN "pmd_basic" ELSE label]

\* mutant of Goto: GatherMetrics returns without the deferred Unlock
GotoSkipsUnlock(p, label) ==
    pc' = [pc EXCEPT ![p] = IF label = "unlock" THEN "rlock" ELSE label]

Goto(p, label) == pc' = [pc EXCEPT ![p] = label]

\* the clock advances
Tick ==
    /\ env # <<>>
    /\ now < MaxTime
    /\ now' = now + 1
    /\ UNCHANGED <<pc, loc, pollInterval, nextCollectionTicker, metrics, rwWriter,
                   rwReaders, errors, totalRequests, builds, ncalls, env, pvars, dvars, hvars, svars>>

\* SetPollInterval(i), between calls
SetPollInterval(i) ==
    /\ env # <<>>
    /\ \A p \in Procs : pc[p] = "idle"
    /\ pollInterval' = i
    /\ UNCHANGED <<pc, loc, now, nextCollectionTicker, metrics, rwWriter,
                   rwReaders, errors, totalRequests, builds, ncalls, env, pvars, dvars, hvars, svars>>

\* a scrape calls Collect, which calls GatherMetrics first
Collect(p) ==
    /\ pc[p] = "idle"
    /\ ncalls < MaxCalls
    /\ ncalls' = ncalls + 1
    /\ loc' = [loc EXCEPT ![p] = LocInit]
    /\ Goto(p, "check")
    /\ UNCHANGED <<now, pollInterval, nextCollectionTicker, metrics, rwWriter,
                   rwReaders, errors, totalRequests, builds, env, pvars, dvars, hvars, svars>>

\* mutant of TooEarly: the rate limit is never applied
TooEarlyNever(t, ticker) == FALSE

\* time.Now().Unix() < e.nextCollectionTicker
TooEarly(t, ticker) == t < ticker

\* GatherMetrics: if time.Now().Unix() < e.nextCollectionTicker { return }
CheckTicker(p) ==
    /\ pc[p] = "check"
    /\ loc' = [loc EXCEPT ![p].tnow = now]
    /\ IF TooEarly(now, nextCollectionTicker) THEN Goto(p, "rlock") ELSE Goto(p, "lock")
    /\ UNCHANGED <<now, pollInterval, nextCollectionTicker, metrics, rwWriter,
                   rwReaders, errors, totalRequests, builds, ncalls, env, pvars, dvars, hvars, svars>>

\* mutant of CanLock: the lock is taken although it is held
CanLockAlways(p) == TRUE

\* sync.RWMutex: Lock() succeeds when no writer and no reader holds the lock
CanLock(p) == rwWriter = "none" /\ rwReaders = {}

\* mutant of CanRLock: the read lock is taken although a writer holds the lock
CanRLockAlways(p) == TRUE

\* sync.RWMutex: RLock() succeeds when no writer holds the lock
CanRLock(p) == rwWriter = "none"

\* e.Lock()
Lock(p) ==
    /\ pc[p] = "lock"
    /\ CanLock(p)
    /\ rwWriter' = p
    /\ Goto(p, "clear")
    /\ UNCHANGED <<loc, now, pollInterval, nextCollectionTicker, metrics,
                   rwReaders, errors, totalRequests, builds, ncalls, env, pvars, dvars, hvars, svars>>

\* if len(e.metrics) > 0 { e.metrics = e.metrics[:0] }; upValue := 1
ClearMetrics(p) ==
    /\ pc[p] = "clear"
    /\ metrics' = <<>>
    /\ builds' = [builds EXCEPT !.begun = @ + 1]
    /\ loc' = [loc EXCEPT ![p].upValue = 1, ![p].build = builds.begun + 1]
    /\ Goto(p, "sysinfo")
    /\ UNCHANGED <<now, pollInterval, nextCollectionTicker, rwWriter,
                   rwReaders, errors, totalRequests, ncalls, env, pvars, dvars, hvars, svars>>

\* mutant of IncrementErrorCounter: failures are not counted
IncrementErrorCounterDropped(e, n) == e

\* e.IncrementErrorCounter(), n times: atomic.AddInt64(&e.errors, 1)
IncrementErrorCounter(e, n) == e + n

\* whether a source of this deployment can fail
MayFail(source) == source \in env.failable

\* the outcomes of a call of a source: TRUE is an error
Outcomes(source) == IF MayFail(source) THEN {FALSE, TRUE} ELSE {FALSE}

B2N(b) == IF b THEN 1 ELSE 0

Build(p) == loc[p].build

\* mutant of UpAfter: a failure leaves upValue as it is
UpAfterKept(up, fail) == up

\* if err != nil { ...; upValue = 0 }
UpAfter(up, fail) == IF fail THEN 0 ELSE up

\* err = e.Client.GetSystemInfo(): a failure counts an error and sets upValue = 0
GetSystemInfo(p) ==
    /\ pc[p] = "sysinfo"
    /\ \E fail \in Outcomes("GetSystemInfo") :
        /\ errors' = IncrementErrorCounter(errors, B2N(fail))
        /\ loc' = [loc EXCEPT ![p].upValue = UpAfter(@, fail),
                              ![p].failures = @ + B2N(fail)]
    /\ Goto(p, "process")
    /\ UNCHANGED <<now, pollInterval, nextCollectionTicker, metrics, rwWriter,
                   rwReaders, totalRequests, builds, ncalls, env, pvars, dvars, hvars, svars>>

\* the GetProcessInfo loop over ovsdb-server and ovs-vswitchd: the pid sample
\* is appended also after a failure
GetProcessInfo(p) ==
    /\ pc[p] = "process"
    /\ \E f1 \in Outcomes("GetProcessInfo"), f2 \in Outcomes("GetProcessInfo") :
        /\ errors' = IncrementErrorCounter(errors, B2N(f1) + B2N(f2))
        /\ loc' = [loc EXCEPT ![p].upValue = UpAfter(@, f1 \/ f2),
                              ![p].failures = @ + B2N(f1) + B2N(f2)]
        /\ metrics' = metrics \o <<Item("pid", "ovsdb-server", Build(p), 0),
                                   Item("pid", "ovs-vswitchd", Build(p), 0)>>
    /\ Goto(p, "logfile")
    /\ UNCHANGED <<now, pollInterval, nextCollectionTicker, rwWriter,
                   rwReaders, totalRequests, builds, ncalls, env, pvars, dvars, hvars, svars>>

\* what one iteration of the log-file loop can meet
LogOutcomes ==
    {"ok"} \cup (IF MayFail("GetLogFileInfo") THEN {"info failed"} ELSE {})
           \cup (IF MayFail("GetLogFileEventStats") THEN {"stats failed"} ELSE {})

\* the samples one iteration of the log-file loop appends
LogItems(component, outcome, b) ==
    IF outcome = "info failed" THEN <<>>
    ELSE IF outcome = "stats failed" THEN <<Item("logFileSize", component, b, 0)>>
    ELSE <<Item("logFileSize", component, b, 0), Item("logEventStat", component, b, 0)>>

\* the log-file loop: IncrementRequestCounter, GetLogFileInfo, GetLogFileEventStats
GetLogFileInfo(p) ==
    /\ pc[p] = "logfile"
    /\ \E o1 \in LogOutcomes, o2 \in LogOutcomes :
        /\ totalRequests' = totalRequests + 2
        /\ errors' = IncrementErrorCounter(errors, B2N(o1 # "ok") + B2N(o2 # "ok"))
        /\ loc' = [loc EXCEPT ![p].failures = @ + B2N(o1 # "ok") + B2N(o2 # "ok")]
        /\ metrics' = metrics \o LogItems("ovsdb-server", o1, Build(p))
                              \o LogItems("ovs-vswitchd", o2, Build(p))
    /\ Goto(p, "applist")
    /\ UNCHANGED <<now, pollInterval, nextCollectionTicker, rwWriter,
                   rwReaders, builds, ncalls, env, pvars, dvars, hvars, svars>>

\* what one iteration of the AppListCommands loop can meet: whether the list
\* failed, and for each command whether its query failed
AppOutcomes ==
    [list : Outcomes("AppListCommands"), cov : Outcomes("GetAppCoverageMetrics"),
     mem : Outcomes("GetAppMemoryMetrics"), dp : Outcomes("GetAppDatapath")]

\* the number of errors one iteration counts; dpif/show is asked of
\* vswitchd-service only
AppErrors(component, o) ==
    IF o.list THEN 1
    ELSE B2N(o.cov) + B2N(o.mem) + B2N(o.dp /\ component = "vswitchd-service")

\* the samples one iteration appends
AppItems(component, o, b) ==
    IF o.list THEN <<>>
    ELSE (IF o.cov THEN <<>> ELSE <<Item("covTotal", component, b, 0)>>)
      \o (IF o.mem THEN <<>> ELSE <<Item("memUsage", component, b, 0)>>)
      \o (IF o.dp \/ component # "vswitchd-service" THEN <<>>
          ELSE <<Item("dpFlowsTotal", component, b, 0)>>)

\* the AppListCommands loop over ovsdb-server and vswitchd-service
AppListCommands(p) ==
    /\ pc[p] = "applist"
    /\ \E o1 \in AppOutcomes, o2 \in AppOutcomes :
        /\ o1.list => ~o1.cov /\ ~o1.mem /\ ~o1.dp
        /\ o2.list => ~o2.cov /\ ~o2.mem /\ ~o2.dp
        /\ ~o1.dp
        /\ errors' = IncrementErrorCounter(errors, AppErrors("ovsdb-server", o1)
                                                    + AppErrors("vswitchd-service", o2))
        /\ loc' = [loc EXCEPT ![p].failures = @ + AppErrors("ovsdb-server", o1)
                                                + AppErrors("vswitchd-service", o2)]
        /\ metrics' = metrics \o AppItems("ovsdb-server", o1, Build(p))
                              \o AppItems("vswitchd-service", o2, Build(p))
    /\ Goto(p, "dbintf")
    /\ UNCHANGED <<now, pollInterval, nextCollectionTicker, rwWriter,
                   rwReaders, totalRequests, builds, ncalls, env, pvars, dvars, hvars, svars>>

\* intfs, err := e.Client.GetDbInterfaces()
GetDbInterfaces(p) ==
    /\ pc[p] = "dbintf"
    /\ \E fail \in Outcomes("GetDbInterfaces") :
        /\ errors' = IncrementErrorCounter(errors, B2N(fail))
        /\ loc' = [loc EXCEPT ![p].failures = @ + B2N(fail)]
        /\ metrics' = IF fail THEN metrics
                      ELSE Append(metrics, Item("interfaceMain", "", Build(p), 0))
    /\ Goto(p, "ports")
    /\ UNCHANGED <<now, pollInterval, nextCollectionTicker, rwWriter,
                   rwReaders, totalRequests, builds, ncalls, env, pvars, dvars, hvars, svars>>

\* IsDefaultPortUp and IsSslPortUp of ovsdb-server: the sample is appended
\* also after a failure
IsPortUp(p) ==
    /\ pc[p] = "ports"
    /\ \E f1 \in Outcomes("IsDefaultPortUp"), f2 \in Outcomes("IsSslPortUp") :
        /\ errors' = IncrementErrorCounter(errors, B2N(f1) + B2N(f2))
        /\ loc' = [loc EXCEPT ![p].failures = @ + B2N(f1) + B2N(f2)]
        /\ metrics' = metrics \o <<Item("networkPortUp", "default", Build(p), 0),
                                   Item("networkPortUp", "ssl", Build(p), 0)>>
    /\ Goto(p, "summary")
    /\ UNCHANGED <<now, pollInterval, nextCollectionTicker, rwWriter,
                   rwReaders, totalRequests, builds, ncalls, env, pvars, dvars, hvars, svars>>

\* mutant of SummarySamples: the up sample is left out
SummarySamplesWithoutUp(b, upValue, e, t) ==
    <<Item("info", "", b, 1), Item("requestErrors", "", b, e),
      Item("requestsTotal", "", b, t)>>

\* the up, info, requestErrors and requestsTotal samples of a rebuild
SummarySamples(b, upValue, e, t) ==
    <<Item("up", "", b, upValue), Item("info", "", b, 1),
      Item("requestErrors", "", b, e), Item("requestsTotal", "", b, t)>>

\* the four appends after the last loop of GatherMetrics
AppendSummary(p) ==
    /\ pc[p] = "summary"
    /\ metrics' = metrics \o SummarySamples(Build(p), loc[p].upValue, errors, totalRequests)
    /\ Goto(p, "pmd")
    /\ UNCHANGED <<loc, now, pollInterval, nextCollectionTicker, rwWriter, rwReaders,
                   errors, totalRequests, builds, ncalls, env, pvars, dvars, hvars, svars>>

\* mutant of enrichWithStats: the records of the secondary output replace the
\* fields of the base records of the same identity
enrichWithStatsOverwriting(list, statsOutput) ==
    LET other == Records(parseEnhancedPmdOutput(statsOutput)) IN
    [i \in 1..Len(list) |->
        IF \E j \in 1..Len(other) : other[j].NumaID = list[i].NumaID
                                    /\ other[j].CoreID = list[i].CoreID
        THEN LET j == CHOOSE k \in 1..Len(other) : other[k].NumaID = list[i].NumaID
                                                   /\ other[k].CoreID = list[i].CoreID
             IN  other[j]
        ELSE list[i]]

\* enrichWithStats(metrics, statsOutput): the body is empty
enrichWithStats(list, statsOutput) == list

\* mutant of Failed: the error of the command is not looked at
FailedNever(a) == FALSE

\* output, err := cmd.Output(); err != nil
Failed(a) == a.err # ""

\* GetEnhancedPmdMetrics, up to the first command: ovs-appctl
\* dpif-netdev/pmd-perf-show, and the parse of what it prints
PmdPerfShow(p) ==
    /\ pc[p] = "pmd"
    /\ \E a \in env.perf :
        IF Failed(a) THEN
            IF ContainsExitStatus(a.err)
            THEN /\ loc' = [loc EXCEPT ![p].primary = <<a>>, ![p].enhanced = <<>>,
                                       ![p].perr = ""]
                 /\ Goto(p, "nextpoll")
            ELSE /\ loc' = [loc EXCEPT ![p].primary = <<a>>, ![p].enhanced = <<>>,
                                       ![p].perr = "failed to execute pmd-perf-show"]
                 /\ Goto(p, "pmd_basic")
        ELSE /\ loc' = [loc EXCEPT ![p].primary = <<a>>, ![p].perr = "",
                          ![p].enhanced = Records(parseEnhancedPmdOutput(a.out))]
             /\ Goto(p, "pmd_stats")
    /\ UNCHANGED <<now, pollInterval, nextCollectionTicker, metrics, rwWriter, rwReaders,
                   errors, totalRequests, builds, ncalls, env, pvars, dvars, hvars, svars>>

\* mutant of AfterSecondary: the failure of the command is returned
AfterSecondaryPropagating(list, a) ==
    IF Failed(a) THEN [list |-> <<>>, err |-> "failed to execute pmd-stats-show"]
    ELSE [list |-> enrichWithStats(list, a.out), err |-> ""]

\* if err == nil { enrichWithStats(metrics, string(statsOutput)) }
\* return metrics, nil
AfterSecondary(list, a) ==
    [list |-> IF Failed(a) THEN list ELSE enrichWithStats(list, a.out), err |-> ""]

\* GetEnhancedPmdMetrics, the second command: ovs-appctl
\* dpif-netdev/pmd-stats-show, and enrichWithStats when it succeeds
PmdStatsShow(p) ==
    /\ pc[p] = "pmd_stats"
    /\ \E a \in env.stats :
        LET r == AfterSecondary(loc[p].enhanced, a) IN
        loc' = [loc EXCEPT ![p].stats = <<a>>, ![p].enhanced = r.list, ![p].perr = r.err]
    /\ Goto(p, "pmd_emit")
    /\ UNCHANGED <<now, pollInterval, nextCollectionTicker, metrics, rwWriter, rwReaders,
                   errors, totalRequests, builds, ncalls, env, pvars, dvars, hvars, svars>>

\* CollectPMDMetrics after GetEnhancedPmdMetrics returned no error: nothing for
\* an empty list, otherwise the samples of each record
EmitEnhanced(p) ==
    /\ pc[p] = "pmd_emit"
    /\ LET em == loc[p].enhanced IN
       IF Len(em) = 0
       THEN /\ Goto(p, "nextpoll")
            /\ UNCHANGED metrics
       ELSE /\ metrics' = metrics \o
                    [i \in 1..Len(em) |->
                        Item("pmdEnhanced", <<em[i].NumaID, em[i].PmdID>>, Build(p), em[i])]
            /\ Goto(p, "pmd_drop")
    /\ UNCHANGED <<loc, now, pollInterval, nextCollectionTicker, rwWriter, rwReaders,
                   errors, totalRequests, builds, ncalls, env, pvars, dvars, hvars, svars>>

RECURSIVE DropScan(_, _, _)
DropScan(counters, lines, i) ==
    IF i > Len(lines) THEN counters
    ELSE DropScan(DropLoop(counters, CoverageTable[lines[i]]), lines, i + 1)

\* GetDropCounters on the text coverage/show printed
GetDropCounters(lines) == DropScan(EmptyMap, lines, 1)

\* the orders in which range yields the keys of a map
RangeOrders(m) ==
    {o \in [1..Cardinality(DOMAIN m) -> DOMAIN m] :
        \A i, j \in DOMAIN o : i # j => o[i] # o[j]}

\* collectDropCounters: a failure is logged only
CollectDropCounters(p) ==
    /\ pc[p] = "pmd_drop"
    /\ \E a \in env.cover :
        /\ loc' = [loc EXCEPT ![p].cover = <<a>>,
                              ![p].derr = IF a.err # "" THEN "failed to get coverage"
                                          ELSE ""]
        /\ IF a.err # "" THEN UNCHANGED metrics
           ELSE LET counters == GetDropCounters(a.out) IN
                \E o \in RangeOrders(counters) :
                   metrics' = metrics \o
                       [i \in DOMAIN o |-> Item("datapathDrops", o[i], Build(p), counters[o[i]])]
    /\ Goto(p, "nextpoll")
    /\ UNCHANGED <<now, pollInterval, nextCollectionTicker, rwWriter, rwReaders,
                   errors, totalRequests, builds, ncalls, env, pvars, dvars, hvars, svars>>

\* collectBasicPMDMetrics: GetPmdPerfMetrics runs pmd-perf-show again
CollectBasicPMDMetrics(p) ==
    /\ pc[p] = "pmd_basic"
    /\ \E a \in env.perf :
        IF a.err # "" THEN UNCHANGED metrics
        ELSE LET bm == parsePmdPerfOutput(a.out).metrics IN
             metrics' = metrics \o
                [i \in 1..Len(bm) |->
                    Item("pmdBasic", <<bm[i].NumaID, bm[i].PmdID>>, Build(p), bm[i])]
    /\ Goto(p, "nextpoll")
    /\ UNCHANGED <<loc, now, pollInterval, nextCollectionTicker, rwWriter, rwReaders,
                   errors, totalRequests, builds, ncalls, env, pvars, dvars, hvars, svars>>

\* the nextPoll sample, with the value e.nextCollectionTicker has at that time
AppendNextPoll(p) ==
    /\ pc[p] = "nextpoll"
    /\ metrics' = Append(metrics, Item("nextPoll", "", Build(p), nextCollectionTicker))
    /\ Goto(p, "settick")
    /\ UNCHANGED <<loc, now, pollInterval, nextCollectionTicker, rwWriter, rwReaders,
                   errors, totalRequests, builds, ncalls, env, pvars, dvars, hvars, svars>>

\* mutant of TimeAdd: the interval is not added
TimeAddNothing(t, seconds) == t

\* time.Now().Add(time.Duration(e.pollInterval) * time.Second).Unix()
TimeAdd(t, seconds) == t + seconds

\* e.nextCollectionTicker = time.Now().Add(pollInterval * time.Second).Unix()
SetNextCollectionTicker(p) ==
    /\ pc[p] = "settick"
    /\ nextCollectionTicker' = TimeAdd(now, pollInterval)
    /\ builds' = [builds EXCEPT !.t = loc[p].tnow, !.poll = pollInterval,
                                !.ticker = TimeAdd(now, pollInterval)]
    /\ Goto(p, "unlock")
    /\ UNCHANGED <<loc, now, pollInterval, metrics, rwWriter, rwReaders,
                   errors, totalRequests, ncalls, env, pvars, dvars, hvars, svars>>

\* defer e.Unlock(), as GatherMetrics returns
Unlock(p) ==
    /\ pc[p] = "unlock"
    /\ rwWriter' = IF rwWriter = p THEN "none" ELSE rwWriter
    /\ Goto(p, "rlock")
    /\ UNCHANGED <<loc, now, pollInterval, nextCollectionTicker, metrics, rwReaders,
                   errors, totalRequests, builds, ncalls, env, pvars, dvars, hvars, svars>>

\* Collect: e.RLock()
RLock(p) ==
    /\ pc[p] = "rlock"
    /\ CanRLock(p)
    /\ rwReaders' = rwReaders \cup {p}
    /\ loc' = [loc EXCEPT ![p].rpos = 0]
    /\ Goto(p, "read")
    /\ UNCHANGED <<now, pollInterval, nextCollectionTicker, metrics, rwWriter,
                   errors, totalRequests, builds, ncalls, env, pvars, dvars, hvars, svars>>

\* Collect: for _, m := range e.metrics { ch <- m }, or the five samples it
\* sends for an empty list
SendMetrics(p) ==
    /\ pc[p] = "read"
    /\ loc' = [loc EXCEPT ![p].rpos = Len(metrics)]
    /\ Goto(p, "runlock")
    /\ UNCHANGED <<now, pollInterval, nextCollectionTicker, metrics, rwWriter, rwReaders,
                   errors, totalRequests, builds, ncalls, env, pvars, dvars, hvars, svars>>

\* Collect returns: defer e.RUnlock()
RUnlock(p) ==
    /\ pc[p] = "runlock"
    /\ rwReaders' = rwReaders \ {p}
    /\ loc' = [loc EXCEPT ![p] = LocInit]
    /\ Goto(p, "idle")
    /\ UNCHANGED <<now, pollInterval, nextCollectionTicker, metrics, rwWriter,
                   errors, totalRequests, builds, ncalls, env, pvars, dvars, hvars, svars>>

GatherMetrics(p) ==
    \/ CheckTicker(p)
    \/ Lock(p)
    \/ ClearMetrics(p)
    \/ GetSystemInfo(p)
    \/ GetProcessInfo(p)
    \/ GetLogFileInfo(p)
    \/ AppListCommands(p)
    \/ GetDbInterfaces(p)
    \/ IsPortUp(p)
    \/ AppendSummary(p)
    \/ PmdPerfShow(p)
    \/ PmdStatsShow(p)
    \/ EmitEnhanced(p)
    \/ CollectDropCounters(p)
    \/ CollectBasicPMDMetrics(p)
    \/ AppendNextPoll(p)
    \/ SetNextCollectionTicker(p)
    \/ Unlock(p)

Step(p) == GatherMetrics(p) \/ RLock(p) \/ SendMetrics(p) \/ RUnlock(p)

Next ==
    \/ Tick
    \/ \E i \in 0..MaxPoll : SetPollInterval(i)
    \/ \E p \in Procs : Collect(p) \/ Step(p)

\* the deployment of the concurrency study: pmd-perf-show answers in each of
\* its ways, the other commands succeed
CacheEnv ==
    [failable |-> {},
     perf  |-> {Answer(ExitStatus, <<>>), Answer(NotFound, <<>>), Answer("", <<"H01">>)},
     stats |-> {Answer("", <<"H01", "MissLost">>)},
     cover |-> {Answer("", <<"Meter42", "Other7">>)}]

Init == InitExporter(CacheEnv)

Spec == Init /\ [][Next]_vars

\* the deployment of the progress study: pmd-perf-show answers in each of its
\* ways, coverage/show and the system-status query may fail
LiveEnv ==
    [failable |-> {"GetSystemInfo"},
     perf  |-> {Answer(ExitStatus, <<>>), Answer(NotFound, <<>>), Answer("", <<"H01">>)},
     stats |-> {Answer("", <<"H01">>)},
     cover |-> {Answer(ExitStatus, <<>>), Answer("", <<"Meter42">>)}]

\* NewExporter and the SetPollInterval that follows it at start-up, in that
\* deployment
InitLive ==
    /\ pc = [p \in Procs |-> "idle"]
    /\ loc = [p \in Procs |-> LocInit]
    /\ now = 0
    /\ pollInterval \in 0..MaxPoll
    /\ nextCollectionTicker = 0
    /\ metrics = <<>>
    /\ rwWriter = "none"
    /\ rwReaders = {}
    /\ errors = 0
    /\ totalRequests = 0
    /\ builds = [begun |-> 0, t |-> 0, poll |-> 0, ticker |-> 0]
    /\ ncalls = 0
    /\ env = LiveEnv
    /\ ParseIdle
    /\ dropCounters = EmptyMap
    /\ dropErr = ""
    /\ parses = <<>>
    /\ IdOff

\* the scrapes of one instant of the clock
NextLive == \E p \in Procs : Collect(p) \/ Step(p)

\* Every call that can take a step does so in the end: a goroutine that is not
\* blocked is scheduled, and each command and each database call returns.
\* Scrapes may stop coming.
Fairness == \A p \in Procs : WF_vars(Step(p))

SpecLive == InitLive /\ [][NextLive]_vars /\ Fairness

\* Calls issued one after another: a scrape starts when no other is running
CollectAlone(p) ==
    /\ \A q \in Procs : pc[q] = "idle"
    /\ Collect(p)

NextSeq ==
    \/ Tick
    \/ \E i \in 0..MaxPoll : SetPollInterval(i)
    \/ \E p \in Procs : CollectAlone(p) \/ Step(p)

SpecSeq == Init /\ [][NextSeq]_vars

\* the deployment of the merge study: both diagnostic commands print a block
\* of thread (0, 1); the second reports another iteration count and two
\* counters the first does not report; the first may also print a text
\* without a thread header
MergeEnv ==
    [failable |-> {},
     perf  |-> {Answer(NotFound, <<>>), Answer("", <<"Prose">>),
                Answer("", <<"H01", "Iter">>)},
     stats |-> {Answer(ExitStatus, <<>>), Answer("", <<"H01", "Iter2", "MissLost">>)},
     cover |-> {Answer("", <<"Meter42">>)}]

InitMerge == InitExporter(MergeEnv)

SpecMerge == InitMerge /\ [][Next]_vars

\* the deployment of the failure study: every source of the database client
\* can fail, pmd-perf-show cannot be run or prints a block, coverage/show
\* fails or prints a counter
FailEnv ==
    [failable |-> {"GetSystemInfo", "GetProcessInfo", "GetLogFileInfo",
                   "GetLogFileEventStats", "AppListCommands", "GetAppCoverageMetrics",
                   "GetAppMemoryMetrics", "GetAppDatapath", "GetDbInterfaces",
                   "IsDefaultPortUp", "IsSslPortUp"},
     perf  |-> {Answer(ExitStatus, <<>>), Answer(NotFound, <<>>), Answer("", <<"H01">>)},
     stats |-> {Answer("", <<"H01">>)},
     cover |-> {Answer(ExitStatus, <<>>), Answer("", <<"Meter42">>)}]

InitFail == InitExporter(FailEnv)

\* the first scrape of the exporter
CollectFirst(p) ==
    /\ ncalls = 0
    /\ Collect(p)

NextFail ==
    \/ \E i \in 0..MaxPoll : SetPollInterval(i)
    \/ \E p \in Procs : CollectFirst(p) \/ Step(p)

SpecFail == InitFail /\ [][NextFail]_vars

-----------------------------------------------------------------------------
(* GetSystemIDFromFile.  A string is the sequence of its characters, "" is   *)
(* <<>>; the file is the sequence of the lines bufio.Scanner yields.         *)

\* the longest line of a file, and the largest number of lines
MaxIdLen == 3

MaxIdLines == 2

\* the characters of the lines; White are those strings.TrimSpace removes
IdChars == {" ", "x"}

White == {" "}

\* mutant of StringsTrimSpace: the line is taken as it is
StringsTrimSpaceKept(s) == s

RECURSIVE TrimLeft(_)
TrimLeft(s) == IF s # <<>> /\ Head(s) \in White THEN TrimLeft(Tail(s)) ELSE s

RECURSIVE TrimRight(_)
TrimRight(s) ==
    IF s # <<>> /\ s[Len(s)] \in White THEN TrimRight(SubSeq(s, 1, Len(s) - 1)) ELSE s

\* strings.TrimSpace(s)
StringsTrimSpace(s) == TrimRight(TrimLeft(s))

\* what GetSystemIDFromFile returns: the id and the error, "" for nil
IdResult(id, err) == [id |-> id, err |-> err]

\* entry of GetSystemIDFromFile(filepath) on a file, missing or not
InitSystemID ==
    /\ idFile \in [exists : BOOLEAN, lines : SeqsUpTo(SeqsUpTo(IdChars, MaxIdLen), MaxIdLines)]
    /\ ~idFile.exists => idFile.lines = <<>>
    /\ idPos = 0
    /\ systemID = <<>>
    /\ idReadErr = FALSE
    /\ idOut = <<>>
    /\ ConnectOff("file")
    /\ ParseIdle
    /\ dropCounters = EmptyMap
    /\ dropErr = ""
    /\ parses = <<>>
    /\ CacheOff

\* os.Open(filepath) fails: return "", error
OpenFails ==
    /\ sidPc \in {"file", "fallback"}
    /\ ~idFile.exists
    /\ idOut = <<>>
    /\ idOut' = <<IdResult(<<>>, "failed to open system-id file")>>
    /\ UNCHANGED <<idFile, idPos, systemID, idReadErr, gvars, pvars, dvars, cvars, hvars>>

\* one iteration of the loop: systemID = strings.TrimSpace(scanner.Text()); the
\* loop is left as soon as systemID is not empty
IdScanLine ==
    /\ sidPc \in {"file", "fallback"}
    /\ idFile.exists
    /\ idOut = <<>>
    /\ ~idReadErr
    /\ systemID = <<>>
    /\ idPos < Len(idFile.lines)
    /\ idPos' = idPos + 1
    /\ systemID' = StringsTrimSpace(idFile.lines[idPos + 1])
    /\ UNCHANGED <<idFile, idReadErr, idOut, gvars, pvars, dvars, cvars, hvars>>

\* scanner.Scan() returns false because reading failed
IdReadFails ==
    /\ sidPc \in {"file", "fallback"}
    /\ idFile.exists
    /\ idOut = <<>>
    /\ ~idReadErr
    /\ systemID = <<>>
    /\ idReadErr' = TRUE
    /\ UNCHANGED <<idFile, idPos, systemID, idOut, gvars, pvars, dvars, cvars, hvars>>

\* after the loop: the read error, the empty id, or the id
IdReturn ==
    /\ sidPc \in {"file", "fallback"}
    /\ idFile.exists
    /\ idOut = <<>>
    /\ systemID # <<>> \/ idPos = Len(idFile.lines) \/ idReadErr
    /\ idOut' = IF idReadErr THEN <<IdResult(<<>>, "error reading system-id file")>>
                ELSE IF systemID = <<>>
                     THEN <<IdResult(<<>>, "system-id is empty in file")>>
                     ELSE <<IdResult(systemID, "")>>
    /\ UNCHANGED <<idFile, idPos, systemID, idReadErr, gvars, pvars, dvars, cvars, hvars>>

NextSystemID == OpenFails \/ IdScanLine \/ IdReadFails \/ IdReturn

SpecSystemID == InitSystemID /\ [][NextSystemID]_vars

\* strings.Trim(s, cutset)
RECURSIVE StringsTrim(_, _)
StringsTrim(s, cutset) ==
    IF s # <<>> /\ Head(s) \in cutset THEN StringsTrim(Tail(s), cutset)
    ELSE IF s # <<>> /\ s[Len(s)] \in cutset
         THEN StringsTrim(SubSeq(s, 1, Len(s) - 1), cutset)
         ELSE s

\* GetSystemIDFromDatabase on the answer a of ovs-vsctl get Open_vSwitch .
\* external-ids:system-id
GetSystemIDFromDatabase(a) ==
    IF a.err # "" THEN IdResult(<<>>, "failed to get system-id from database")
    ELSE LET id == StringsTrim(StringsTrimSpace(a.out), {"\""}) IN
         IF id = <<>> THEN IdResult(<<>>, "system-id is empty in database")
         ELSE IdResult(id, "")

\* what ovs-vsctl answers in the deployments studied
DbAnswers ==
    {[err |-> "exit status 1", out |-> <<>>],
     [err |-> "", out |-> <<>>],
     [err |-> "", out |-> <<"\"", "\"", " ">>],
     [err |-> "", out |-> <<"\"", "d", "\"", " ">>],
     [err |-> "", out |-> <<"d">>]}

\* the system-id files of the deployments studied
IdFiles ==
    {[exists |-> FALSE, lines |-> <<>>],
     [exists |-> TRUE, lines |-> <<>>],
     [exists |-> TRUE, lines |-> << <<" ">> >>],
     [exists |-> TRUE, lines |-> << <<" ">>, <<" ", "x", " ">> >>],
     [exists |-> TRUE, lines |-> << <<"x">> >>]}

\* entry of Connect
InitConnect ==
    /\ idFile \in IdFiles
    /\ idPos = 0
    /\ systemID = <<>>
    /\ idReadErr = FALSE
    /\ idOut = <<>>
    /\ sidPc = "db"
    /\ sidEnv \in [db : DbAnswers, before : {Unknown, <<"o">>}]
    /\ clientSystemID = sidEnv.before
    /\ sidErr = ""
    /\ clientCalls = <<>>
    /\ connectOut = <<>>
    /\ ParseIdle
    /\ dropCounters = EmptyMap
    /\ dropErr = ""
    /\ parses = <<>>
    /\ CacheOff

\* mutant of DatabaseIDUsable: whatever the database query returned is taken
DatabaseIDUsableAlways(r) == TRUE

\* err == nil && systemID != ""
DatabaseIDUsable(r) == r.err = "" /\ r.id # <<>>

\* GetSystemID, up to the call of GetSystemIDFromFile
QueryDatabase ==
    /\ sidPc = "db"
    /\ LET r == GetSystemIDFromDatabase(sidEnv.db) IN
       IF DatabaseIDUsable(r)
       THEN /\ clientSystemID' = r.id
            /\ sidErr' = ""
            /\ sidPc' = "connect"
       ELSE /\ sidPc' = "fallback"
            /\ UNCHANGED <<clientSystemID, sidErr>>
    /\ UNCHANGED <<idFile, idPos, systemID, idReadErr, idOut, sidEnv, clientCalls,
                   connectOut, pvars, dvars, cvars, hvars>>

\* GetSystemID, after GetSystemIDFromFile returned
FileFallback ==
    /\ sidPc = "fallback"
    /\ idOut # <<>>
    /\ IF idOut[1].err # ""
       THEN /\ sidErr' = "failed to get system-id from both database and file"
            /\ UNCHANGED clientSystemID
       ELSE /\ clientSystemID' = idOut[1].id
            /\ sidErr' = ""
    /\ sidPc' = "connect"
    /\ UNCHANGED <<idFile, idPos, systemID, idReadErr, idOut, sidEnv, clientCalls,
                   connectOut, pvars, dvars, cvars, hvars>>

\* Connect, after GetSystemID returned: the error is logged only; then
\* e.Client.Connect(), whose error is returned
ClientConnect ==
    /\ sidPc = "connect"
    /\ clientCalls' = Append(clientCalls, "Connect")
    /\ \E failed \in BOOLEAN :
        IF failed THEN sidPc' = "done" /\ connectOut' = <<"connect failed">>
        ELSE sidPc' = "sysinfo" /\ UNCHANGED connectOut
    /\ UNCHANGED <<idFile, idPos, systemID, idReadErr, idOut, sidEnv, clientSystemID,
                   sidErr, pvars, dvars, cvars, hvars>>

\* Connect: e.Client.GetSystemInfo(), and the return
ClientGetSystemInfo ==
    /\ sidPc = "sysinfo"
    /\ clientCalls' = Append(clientCalls, "GetSystemInfo")
    /\ \E failed \in BOOLEAN :
        connectOut' = <<IF failed THEN "GetSystemInfo failed" ELSE "">>
    /\ sidPc' = "done"
    /\ UNCHANGED <<idFile, idPos, systemID, idReadErr, idOut, sidEnv, clientSystemID,
                   sidErr, pvars, dvars, cvars, hvars>>

NextConnect ==
    \/ QueryDatabase
    \/ NextSystemID
    \/ FileFallback
    \/ ClientConnect
    \/ ClientGetSystemInfo

SpecConnect == InitConnect /\ [][NextConnect]_vars


-----------------------------------------------------------------------------
(* Properties of the record builders *)

IsHeader(line) == Match("pmdHeaderRe", line) # NoMatch

HeaderLines(t) == SelectSeq(t, IsHeader)

\* C1: a text with N thread-header lines yields exactly N records, in the order
\* of the header lines, the i-th record carrying the numa id and the core id
\* captured from the i-th header line (both record builders).
C1_OneRecordPerHeader ==
    pdone =>
        LET hs == HeaderLines(text) IN
        /\ Len(pmetrics) = Len(hs)
        /\ \A i \in 1..Len(hs) :
            LET m == Match("pmdHeaderRe", hs[i]) IN
            /\ pmetrics[i].NumaID = m[1]
            /\ pmetrics[i].PmdID = m[2]
            /\ parser = "enhanced" => pmetrics[i].CoreID = m[2]

\* two header lines with different identities, other lines around them, parsed
C1_Witness ==
    /\ pdone
    /\ Len(pmetrics) = 2
    /\ pmetrics[1].NumaID # pmetrics[2].NumaID
    /\ Len(text) > 2

\* line j of the text is a thread header
HdrAt(j) == IsHeader(text[j])

\* line j is a histogram section header that the loop reaches
SectionAt(j) == ~HdrAt(j) /\ Match("histogramRe", text[j]) # NoMatch

\* line j is a histogram entry line with a count that parses
EntryAt(j) ==
    /\ ~HdrAt(j)
    /\ ~SectionAt(j)
    /\ Match("histogramEntryRe", text[j]) # NoMatch
    /\ Match("histogramEntryRe", text[j])[2].fits

\* the last header or section line before line j, 0 if there is none
LastControl(j) ==
    LET C == {k \in 1..(j - 1) : HdrAt(k) \/ SectionAt(k)}
    IN  IF C = {} THEN 0 ELSE CHOOSE k \in C : \A c \in C : c <= k

\* the number of header lines among the first j lines
BlockOf(j) == Cardinality({k \in 1..j : HdrAt(k)})

\* the entry lines of block b that a section named name most recently precedes
EntriesOf(b, name) ==
    {j \in 1..Len(text) :
        /\ EntryAt(j)
        /\ BlockOf(j) = b
        /\ LastControl(j) # 0
        /\ SectionAt(LastControl(j))
        /\ ToLower(Match("histogramRe", text[LastControl(j)])[1]) = name}

\* what the histogram name of block b must hold: for each label the count of
\* the last entry line attributed to it
ExpectedHistogram(b, name) ==
    LET J == EntriesOf(b, name)
        labels == {Match("histogramEntryRe", text[j])[1] : j \in J}
    IN  [l \in labels |->
            LET Jl == {j \in J : Match("histogramEntryRe", text[j])[1] = l}
                last == CHOOSE j \in Jl : \A k \in Jl : k <= j
            IN  Match("histogramEntryRe", text[last])[2].n]

\* C10: every histogram of every record holds exactly the entries whose most
\* recent preceding header, within the same thread block, is the section header
\* of that histogram; entries after a thread header and before any section
\* header, or after a section of another name, are in no histogram.
C10_HistogramAttribution ==
    (pdone /\ parser = "enhanced") =>
        \A b \in 1..Len(pmetrics) :
            /\ hmaps[pmetrics[b].CyclesHistogram] = ExpectedHistogram(b, "cycles")
            /\ hmaps[pmetrics[b].PacketsHistogram] = ExpectedHistogram(b, "packets")
            /\ hmaps[pmetrics[b].BatchSizeHistogram] = ExpectedHistogram(b, "batch")

\* a section was active in the first block, and an entry line follows the
\* second thread header with no section header in between
C10_Witness ==
    /\ pdone
    /\ parser = "enhanced"
    /\ Len(pmetrics) = 2
    /\ \E j \in 1..Len(text) :
        /\ EntryAt(j)
        /\ LastControl(j) # 0
        /\ HdrAt(LastControl(j))
        /\ BlockOf(j) = 2
        /\ \E k \in 1..(j - 1) : SectionAt(k) /\ BlockOf(k) = 1
    /\ hmaps[pmetrics[2].CyclesHistogram] = EmptyMap

-----------------------------------------------------------------------------
(* Properties of GetDropCounters *)

\* line j of the coverage text names a drop counter as its leading token and a
\* decimal count (one a 64-bit counter can hold) follows it
CountedAt(j) ==
    LET cl == CoverageTable[text[j]] IN
    /\ Len(cl.toks) >= 2
    /\ cl.toks[1].text \in dropTypes
    /\ cl.toks[2].num # <<>>
    /\ cl.toks[2].num[1].fits

\* C9: the returned map holds exactly the enumerated drop reasons that lead a
\* line and are followed by a decimal count, each with the count of its last
\* such line; a reason that is not observed is absent, and a line led by any
\* other token adds nothing.
C9_DropCounters ==
    (pdone /\ parser = "drop" /\ dropErr = "") =>
        LET J == {j \in 1..Len(text) : CountedAt(j)}
            names == {CoverageTable[text[j]].toks[1].text : j \in J}
        IN  /\ DOMAIN dropCounters = names
            /\ \A name \in names :
                LET Jn == {j \in J : CoverageTable[text[j]].toks[1].text = name}
                    last == CHOOSE j \in Jn : \A k \in Jn : k <= j
                IN  dropCounters[name] = CoverageTable[text[last]].toks[2].num[1].n

\* a known counter with a count and an unrelated line that ends in a number
C9_Witness ==
    /\ pdone
    /\ parser = "drop"
    /\ dropErr = ""
    /\ \E j \in 1..Len(text) : text[j] = "Other7"
    /\ \E j \in 1..Len(text) : text[j] = "Meter42"
    /\ DOMAIN dropCounters = {"datapath_drop_meter"}
    /\ dropCounters["datapath_drop_meter"] = 42

-----------------------------------------------------------------------------
(* Properties of the snapshot cache *)

\* a call that is iterating e.metrics under the read lock
Reading == {"read", "runlock"}

\* a call between clearing e.metrics and recording the next-allowed-poll time
Sourcing == {"sysinfo", "process", "logfile", "applist", "dbintf", "ports", "summary",
             "pmd", "pmd_stats", "pmd_emit", "pmd_drop", "pmd_basic", "nextpoll",
             "settick"}

\* a call between e.Lock() and the deferred e.Unlock()
HoldsLock == {"clear", "unlock"} \cup Sourcing

\* a list that one rebuild filled from its first to its last sample
CompleteList(m) ==
    /\ Len(m) > 0
    /\ m[1].name = "pid"
    /\ m[Len(m)].name = "nextPoll"
    /\ \E i \in 1..Len(m) : m[i].name = "up"
    /\ \A i \in 1..Len(m) : m[i].build = m[1].build

\* C2: in every interleaving of Collect and GatherMetrics, the list a reader
\* iterates is the complete result of one finished rebuild, never a cleared or
\* partly refilled list.
C2_NoHalfBuiltSnapshot ==
    \A p \in Procs :
        pc[p] \in Reading =>
            /\ CompleteList(metrics)
            /\ \A q \in Procs : pc[q] \in Sourcing => loc[q].build # metrics[1].build

\* a reader iterates the list while another call has passed the rate-limit
\* check and waits to rebuild
C2_Witness ==
    \E p \in Procs, q \in Procs :
        /\ pc[p] = "runlock"
        /\ loc[p].rpos = Len(metrics)
        /\ loc[p].rpos > 0
        /\ pc[q] = "lock"

C4_OnlyFirstRebuilds ==
    \A p \in Procs :
        (pc[p] \in Sourcing /\ pollInterval > 0) => loc[p].tnow >= nextCollectionTicker

\* C5: at most one call is between clearing the list and recording the
\* next-allowed-poll time.
C5_OneRebuildAtATime ==
    Cardinality({p \in Procs : pc[p] \in Sourcing}) <= 1

\* one call rebuilds while another has passed the check and waits at e.Lock()
C5_Witness ==
    \E p \in Procs, q \in Procs :
        /\ pc[p] \in Sourcing
        /\ pc[q] = "lock"
        /\ loc[p].build > 0

\* C6: for calls issued one after another, a call that invokes the sources has
\* a time not before the next-allowed-poll time the last completed rebuild
\* recorded, and that time is at least one poll interval after the time of the
\* call that rebuilt.
C6_RateLimit ==
    \A p \in Procs :
        (pc[p] \in Sourcing /\ builds.begun > 1) =>
            /\ loc[p].tnow >= builds.ticker
            /\ builds.ticker >= builds.t + builds.poll
            /\ loc[p].tnow - builds.t >= builds.poll

\* with a positive poll interval, a call made before the recorded time has
\* returned from GatherMetrics without rebuilding
C6_Witness ==
    \E p \in Procs :
        /\ pc[p] = "rlock"
        /\ loc[p].build = 0
        /\ builds.begun = 1
        /\ builds.poll > 0
        /\ loc[p].tnow < builds.ticker

-----------------------------------------------------------------------------
(* Properties of the merger *)

\* the fields of a record that hold a number
ScalarFields ==
    DOMAIN NewEnhancedPmdMetrics("", "", 0)
        \ {"PmdID", "NumaID", "CoreID",
           "CyclesHistogram", "PacketsHistogram", "BatchSizeHistogram"}

SameIdentity(a, b) == a.NumaID = b.NumaID /\ a.CoreID = b.CoreID

\* the records of the primary output, before enrichment
BaseRecords(p) == Records(parseEnhancedPmdOutput(loc[p].primary[1].out))

\* the records the record builder produces from the secondary output
SecondaryRecords(p) == Records(parseEnhancedPmdOutput(loc[p].stats[1].out))

\* GetEnhancedPmdMetrics has run both commands, and both succeeded
Enriched(p) ==
    /\ pc[p] \in {"pmd_emit", "pmd_drop"}
    /\ loc[p].primary # <<>> /\ loc[p].primary[1].err = ""
    /\ loc[p].stats # <<>> /\ loc[p].stats[1].err = ""

\* the records GatherMetrics has published
PublishedRecords ==
    LET IsPmd(it) == it.name = "pmdEnhanced"
        items == SelectSeq(metrics, IsPmd)
    IN  [i \in 1..Len(items) |-> items[i].val]

\* C7: a field the base record has set keeps the base value in the record
\* GetEnhancedPmdMetrics returns, and in the published one, whatever the
\* secondary output reports for the same thread.
C7_MergePrecedence ==
    \A p \in Procs :
        Enriched(p) =>
            LET base == BaseRecords(p)
                out == IF pc[p] = "pmd_emit" THEN loc[p].enhanced ELSE PublishedRecords
            IN  /\ Len(out) = Len(base)
                /\ \A i \in 1..Len(base) : \A f \in ScalarFields :
                    base[i][f] # 0 => out[i][f] = base[i][f]

\* the two outputs report different values of a field for the same thread, and
\* the records have been published
C7_Witness ==
    \E p \in Procs :
        /\ Enriched(p)
        /\ pc[p] = "pmd_drop"
        /\ \E i \in 1..Len(BaseRecords(p)), j \in 1..Len(SecondaryRecords(p)) :
            /\ SameIdentity(BaseRecords(p)[i], SecondaryRecords(p)[j])
            /\ \E f \in ScalarFields :
                /\ BaseRecords(p)[i][f] # 0
                /\ SecondaryRecords(p)[j][f] # 0
                /\ SecondaryRecords(p)[j][f] # BaseRecords(p)[i][f]

\* C8 as stated: each field the base record does not have populated receives
\* the value the secondary record of the same identity has for it.
C8_MissingFieldsMerged ==
    \A p \in Procs :
        (Enriched(p) /\ pc[p] = "pmd_emit") =>
            LET base == BaseRecords(p)
                other == SecondaryRecords(p)
            IN  \A i \in 1..Len(base), j \in 1..Len(other) :
                    SameIdentity(base[i], other[j]) =>
                        \A f \in ScalarFields :
                            base[i][f] = 0 => loc[p].enhanced[i][f] = other[j][f]

-----------------------------------------------------------------------------
(* Further properties of the record builders *)

\* the last call that returned
LastParse == parses[Len(parses)]

\* C11: a text with no line that matches the thread-header pattern, the empty
\* text included, yields an empty record list and no error (both builders).
C11_NoHeaderNoRecords ==
    (pdone /\ HeaderLines(text) = <<>>) =>
        /\ LastParse.text = text
        /\ LastParse.out = <<>>
        /\ LastParse.err = ""

\* a text of field, section and entry lines but no header line has been parsed
C11_Witness ==
    /\ pdone
    /\ HeaderLines(text) = <<>>
    /\ Len(text) = 3
    /\ text[1] = "Iter"
    /\ \E j \in 2..3 : EntryAt(j)

PrimaryAnswered(p, err) ==
    /\ pc[p] \in HoldsLock
    /\ loc[p].primary # <<>>
    /\ loc[p].primary[1].err = err

\* the value of the error counter that the rebuild wrote into its summary
SummaryErrors == {metrics[i].val : i \in {j \in DOMAIN metrics : metrics[j].name = "requestErrors"}}

\* C13: when pmd-perf-show exits with a non-zero status, GetEnhancedPmdMetrics
\* returns an empty list and no error, the rebuild goes on to its end without
\* a sample of a PMD thread, and the error counter stays at the value it had
\* before the PMD collection
C13_FeatureAbsent ==
    \A p \in Procs :
        PrimaryAnswered(p, ExitStatus) =>
            /\ loc[p].enhanced = <<>>
            /\ loc[p].perr = ""
            /\ pc[p] \in {"nextpoll", "settick", "unlock"}
            /\ \A i \in DOMAIN metrics : metrics[i].name \notin {"pmdEnhanced", "pmdBasic"}
            /\ SummaryErrors = {errors}
            /\ errors = loc[p].failures

C13_Witness ==
    \E p \in Procs :
        /\ PrimaryAnswered(p, ExitStatus)
        /\ pc[p] = "unlock"
        /\ errors > 0

\* the call p has asked coverage/show in its rebuild and got the error err
CoverAnswered(p, err) ==
    /\ pc[p] \in HoldsLock
    /\ loc[p].cover # <<>>
    /\ loc[p].cover[1].err = err

\* C14: when coverage/show fails in a rebuild, GetDropCounters returns an error
\* and the error counter is incremented in that rebuild, over the failures of
\* the other sources
C14_DropFailureCounted ==
    \A p \in Procs :
        CoverAnswered(p, ExitStatus) =>
            /\ loc[p].derr # ""
            /\ errors > loc[p].failures

\* C15: a rebuild that has reached the end of its sources has asked
\* coverage/show, whatever pmd-perf-show answered
C15_DropsAlwaysCollected ==
    \A p \in Procs :
        pc[p] \in {"nextpoll", "settick", "unlock"} => loc[p].cover # <<>>

\* the names of the samples in e.metrics
SampleNames == {metrics[i].name : i \in DOMAIN metrics}

\* C16: in a rebuild every failure of a database-backed source is counted in
\* the error counter, and whichever of them fail the rebuild goes through the
\* later sources, the PMD collection included, publishes a complete list and
\* records the next-allowed-poll time
C16_PartialDataOverNone ==
    \A p \in Procs :
        /\ pc[p] \in HoldsLock => errors = loc[p].failures
        /\ pc[p] \in {"pmd_stats", "pmd_emit", "pmd_drop", "pmd_basic", "nextpoll",
                      "settick", "unlock"} => loc[p].primary # <<>>
        /\ pc[p] = "unlock" =>
            /\ CompleteList(metrics)
            /\ {"pid", "networkPortUp", "up", "requestErrors", "nextPoll"} \subseteq SampleNames
            /\ loc[p].primary # <<>>
            /\ nextCollectionTicker = now + pollInterval
            /\ builds.ticker = nextCollectionTicker

C16_Witness ==
    \E p \in Procs :
        /\ pc[p] = "unlock"
        /\ loc[p].upValue = 0
        /\ errors >= 8
        /\ pollInterval > 0
        /\ loc[p].primary[1].err = ""

\* C17: the records a parse of the enhanced builder returns are unique by
\* (NumaID, CoreID), whatever the text is
C17_UniqueIdentity ==
    (pdone /\ parser = "enhanced" /\ parses # <<>>) =>
        \A i \in DOMAIN LastParse.out : \A j \in DOMAIN LastParse.out :
            (LastParse.out[i].NumaID = LastParse.out[j].NumaID
                /\ LastParse.out[i].CoreID = LastParse.out[j].CoreID) => i = j

\* the rules of the builder that is parsing
RulesOf(which) == IF which = "enhanced" THEN EnhancedRules ELSE BasicRules

\* line j is no header and matches the pattern of a field rule of the builder
FieldLineAt(j) ==
    /\ ~HdrAt(j)
    /\ \E i \in DOMAIN RulesOf(parser) : Match(RulesOf(parser)[i].re, text[j]) # NoMatch

\* every field of rec but the identity is zero, every histogram is empty
ZeroButIdentity(rec) ==
    \A f \in DOMAIN rec \ {"PmdID", "NumaID", "CoreID"} :
        IF f \in {"CyclesHistogram", "PacketsHistogram", "BatchSizeHistogram"}
        THEN rec[f] = EmptyMap
        ELSE rec[f] = 0

\* C18: a thread block with no field line and no histogram entry line yields a
\* record that is zero but for its identity, with empty histograms; so do two
\* consecutive header lines (both record builders)
C18_EmptyBlockIsZero ==
    (pdone /\ parses # <<>>) =>
        /\ Len(LastParse.out) = Len(HeaderLines(text))
        /\ \A b \in DOMAIN LastParse.out :
            (\A j \in 1..Len(text) : BlockOf(j) = b => ~FieldLineAt(j) /\ ~EntryAt(j))
                => ZeroButIdentity(LastParse.out[b])

\* a block with a field line, followed by two header lines
C18_Witness ==
    /\ pdone
    /\ parses # <<>>
    /\ Len(text) = 4
    /\ HdrAt(1) /\ text[2] = "Iter" /\ HdrAt(3) /\ HdrAt(4)
    /\ Len(LastParse.out) = 3
    /\ LastParse.out[1].Iterations = 100
    /\ ZeroButIdentity(LastParse.out[2])
    /\ ZeroButIdentity(LastParse.out[3])

\* the conversion of the capture tok that a rule of this kind makes succeeds
Converts(kind, tok) == IF kind \in {"uint", "sleep"} THEN tok.fits ELSE tok.ok

\* on this line a rule stores a converted capture in field f
StoresIn(rule, line, f) ==
    /\ Match(rule.re, line) # NoMatch
    /\ Converts(rule.kind, Match(rule.re, line)[rule.cap])
    /\ \/ rule.field = f
       \/ rule.kind = "sleep" /\ f = "BusyIterations"

\* the loop takes a line that is no header while a record is in progress
ScansFieldLine ==
    /\ pos' = pos + 1
    /\ currentMetric # <<>>
    /\ ~IsHeader(text[pos + 1])

\* C19: a capture that does not convert leaves its field as it was: a line
\* changes only the fields for which a rule converts a capture of that line,
\* and the histogram maps only by an entry whose count converts; the list
\* built so far is untouched, the scan goes on to the last line, and the
\* builder returns no error
C19_FailureSkipsOnlyItsField ==
    [][/\ ScansFieldLine =>
            /\ currentMetric' # <<>>
            /\ pmetrics' = pmetrics
            /\ \A f \in DOMAIN currentMetric[1] :
                (\A i \in DOMAIN RulesOf(parser) :
                    ~StoresIn(RulesOf(parser)[i], text[pos + 1], f))
                        => currentMetric'[1][f] = currentMetric[1][f]
            /\ ~EntryAt(pos + 1) => hmaps' = hmaps
       /\ pdone' =>
            /\ pos' = Len(text)
            /\ parses'[Len(parses')].err = ""
      ]_vars

\* an iterations line whose count overflows, after one that set the count and
\* before a line that sets two other fields
C19_Witness ==
    /\ pdone
    /\ parser = "enhanced"
    /\ text = <<"H01", "Iter", "IterBig", "MissLost">>
    /\ LastParse.out[1].Iterations = 100
    /\ LastParse.out[1].UsPerIteration = 30
    /\ LastParse.out[1].Miss = 3
    /\ LastParse.out[1].Lost = 4

\* ---------------------------------------------------------------------------
\* The system id read from a file
\* ---------------------------------------------------------------------------

\* the positions of the characters of line i of the file that are no whitespace
InkOf(i) == {k \in DOMAIN idFile.lines[i] : idFile.lines[i][k] \notin White}

\* the lines of the file that are not blank
NonBlank == {i \in DOMAIN idFile.lines : InkOf(i) # {}}

Least(S) == CHOOSE x \in S : \A y \in S : x <= y

Greatest(S) == CHOOSE x \in S : \A y \in S : y <= x

\* C20: GetSystemIDFromFile returns, with no error, the first line of the file
\* that is not blank, from its first to its last character that is no
\* whitespace; it returns the empty id and an error when the file cannot be
\* opened, when no line is non-blank, and when reading fails before such a line
C20_FirstNonBlankLine ==
    idOut # <<>> =>
        IF ~idFile.exists \/ idReadErr \/ NonBlank = {}
        THEN idOut[1].id = <<>> /\ idOut[1].err # ""
        ELSE LET i == Least(NonBlank) IN
             /\ idOut[1].id = SubSeq(idFile.lines[i], Least(InkOf(i)), Greatest(InkOf(i)))
             /\ idOut[1].err = ""

\* a blank line of one space, then a line with whitespace on both sides
C20_Witness ==
    /\ idOut # <<>>
    /\ idFile.exists
    /\ ~idReadErr
    /\ idFile.lines = << <<" ">>, <<" ", "x", " ">> >>
    /\ idOut[1] = IdResult(<<"x">>, "")

\* GetSystemID has returned
GetSystemIDReturned == sidPc \in {"connect", "sysinfo", "done"}

\* C21: GetSystemID stores the id of the database when the query succeeds with
\* an id that is not empty, and only otherwise consults the file; when the
\* file gives no id either, e.Client.System.ID is what it was, GetSystemID
\* returns an error, and Connect goes on to e.Client.Connect() and never
\* returns that error
C21_SystemIDOrder ==
    LET r == GetSystemIDFromDatabase(sidEnv.db)
        fromDb == r.err = "" /\ r.id # <<>>
    IN  /\ (sidPc = "fallback" \/ idPos > 0 \/ idOut # <<>>) => ~fromDb
        /\ GetSystemIDReturned =>
            IF fromDb
            THEN clientSystemID = r.id /\ sidErr = "" /\ idOut = <<>>
            ELSE /\ idOut # <<>>
                 /\ IF idOut[1].err = ""
                    THEN clientSystemID = idOut[1].id /\ sidErr = ""
                    ELSE clientSystemID = sidEnv.before /\ sidErr # ""
        /\ sidPc \in {"sysinfo", "done"} =>
            /\ clientCalls # <<>>
            /\ clientCalls[1] = "Connect"
        /\ connectOut # <<>> => connectOut[1] \in {"", "connect failed", "GetSystemInfo failed"}

\* both sources failed and Connect has returned nil
C21_Witness ==
    /\ sidPc = "done"
    /\ sidEnv.db.err # ""
    /\ ~idFile.exists
    /\ sidErr # ""
    /\ sidEnv.before = <<"o">>
    /\ clientSystemID = <<"o">>
    /\ clientCalls = <<"Connect", "GetSystemInfo">>
    /\ connectOut = <<"">>

\* C22: every record the enhanced builder returns, whether a header line or the
\* end of the input finalized it, has TotalCycles = BusyCycles + IdleCycles
\* (no line sets TotalCycles) and, when iterations were seen, TotalPackets =
\* the rounded-down product of Iterations and PacketsPerIteration
C22_DerivedAtEveryFinalization ==
    (pdone /\ parser = "enhanced" /\ parses # <<>>) =>
        \A i \in DOMAIN LastParse.out :
            LET r == LastParse.out[i] IN
            /\ r.TotalCycles = r.BusyCycles + r.IdleCycles
            /\ r.Iterations # 0 => r.TotalPackets = (r.Iterations * r.PacketsPerIteration) \div 10

\* ---------------------------------------------------------------------------
\* The published list and the rate limit
\* ---------------------------------------------------------------------------

\* C23: a step of a call that is rebuilding and has not yet published leaves
\* the list that the last rebuild published as it is
C23_PublishedListRetained ==
    [][\A p \in Procs :
        (pc[p] \in {"clear"} \cup Sourcing /\ CompleteList(metrics))
            => metrics' = metrics]_vars

\* C24: a GatherMetrics call made before the next-allowed-poll time returns at
\* once: it goes on to read without taking the lock, and e.metrics, the error
\* counter, the request counter and the next-allowed-poll time are what they
\* were
C24_EarlyRefreshIsNoOp ==
    [][\A p \in Procs :
        (pc[p] = "check" /\ pc'[p] # "check" /\ now < nextCollectionTicker) =>
            /\ pc'[p] = "rlock"
            /\ rwWriter' = rwWriter
            /\ rwWriter' # p
            /\ metrics' = metrics
            /\ errors' = errors
            /\ totalRequests' = totalRequests
            /\ nextCollectionTicker' = nextCollectionTicker
            /\ builds' = builds]_vars

\* a call that returned early from GatherMetrics has read the list of the
\* rebuild before it
C24_Witness ==
    \E p \in Procs :
        /\ pc[p] = "runlock"
        /\ loc[p].build = 0
        /\ loc[p].tnow < nextCollectionTicker
        /\ CompleteList(metrics)
        /\ loc[p].rpos = Len(metrics)
        /\ totalRequests > 0

\* C25 as stated: the time a rebuild records is the time its call compared
\* with the ticker at the rate-limit check, plus the poll interval
C25_TickerFromAdmission ==
    \A p \in Procs :
        pc[p] = "unlock" => nextCollectionTicker = loc[p].tnow + pollInterval

\* C25, amended: the time a rebuild records is the time at which it has gone
\* through its sources, read anew, plus the poll interval; it is not before
\* the time of the rate-limit check plus the poll interval
C25_TickerFromEndOfRebuild ==
    [][\A p \in Procs :
        (pc[p] = "settick" /\ pc'[p] = "unlock") =>
            /\ nextCollectionTicker' = now + pollInterval
            /\ nextCollectionTicker' >= loc[p].tnow + pollInterval]_vars

\* the clock advanced between the rate-limit check and the end of the rebuild
C25_Witness ==
    \E p \in Procs :
        /\ pc[p] = "unlock"
        /\ pollInterval > 0
        /\ builds.ticker = nextCollectionTicker
        /\ nextCollectionTicker > loc[p].tnow + pollInterval

\* ---------------------------------------------------------------------------
\* The order of the commands of the merger
\* ---------------------------------------------------------------------------

\* the call p is past the place where GetEnhancedPmdMetrics runs pmd-stats-show
PastSecondary(p) ==
    pc[p] \in {"pmd_emit", "pmd_drop", "pmd_basic", "nextpoll", "settick", "unlock"}

\* C26 as stated: pmd-stats-show is run only after pmd-perf-show succeeded and
\* its output gave at least one record
C26_SecondaryOnlyForRecords ==
    \A p \in Procs :
        (pc[p] \in HoldsLock /\ loc[p].stats # <<>>) =>
            /\ loc[p].primary # <<>>
            /\ loc[p].primary[1].err = ""
            /\ BaseRecords(p) # <<>>

\* C26, amended: pmd-stats-show is run in a rebuild exactly when pmd-perf-show
\* succeeded, whether or not its output gave a record
C26_SecondaryAfterSuccess ==
    \A p \in Procs :
        pc[p] \in HoldsLock =>
            /\ loc[p].stats # <<>> => (loc[p].primary # <<>> /\ loc[p].primary[1].err = "")
            /\ (PastSecondary(p) /\ loc[p].primary # <<>> /\ loc[p].primary[1].err = "")
                    => loc[p].stats # <<>>

\* pmd-stats-show has been run after an output without a thread header
C26_Witness ==
    \E p \in Procs :
        /\ pc[p] = "nextpoll"
        /\ loc[p].primary # <<>>
        /\ loc[p].primary[1].err = ""
        /\ BaseRecords(p) = <<>>
        /\ loc[p].stats # <<>>
        /\ loc[p].stats[1].err = ""

\* C27: when pmd-stats-show fails, GetEnhancedPmdMetrics returns the list built
\* from the output of pmd-perf-show, as it was, and no error; the step leaves
\* the error counter as it was, and the samples of the list are published
C27_SecondaryFailureSwallowed ==
    [][\A p \in Procs :
        (pc[p] = "pmd_stats" /\ pc'[p] # "pmd_stats" /\ loc'[p].stats[1].err # "") =>
            /\ pc'[p] = "pmd_emit"
            /\ loc'[p].enhanced = BaseRecords(p)
            /\ loc'[p].enhanced = loc[p].enhanced
            /\ loc'[p].perr = ""
            /\ errors' = errors
            /\ metrics' = metrics]_vars

\* the records of the primary output are published after pmd-stats-show failed
C27_Witness ==
    \E p \in Procs :
        /\ pc[p] = "pmd_drop"
        /\ loc[p].stats # <<>>
        /\ loc[p].stats[1].err = ExitStatus
        /\ loc[p].perr = ""
        /\ PublishedRecords = BaseRecords(p)
        /\ PublishedRecords # <<>>

\* C28: in a rebuild pmd-stats-show is asked only after pmd-perf-show has
\* returned and its output has been parsed into the list, and coverage/show is
\* asked only after both have returned and the samples of the list have been
\* appended
C28_MergerStepsInOrder ==
    [][\A p \in Procs :
        /\ (pc[p] \in HoldsLock /\ loc[p].stats = <<>> /\ loc'[p].stats # <<>>) =>
            /\ loc[p].primary # <<>>
            /\ ~Failed(loc[p].primary[1])
            /\ loc[p].enhanced = BaseRecords(p)
            /\ loc[p].cover = <<>>
        /\ (pc[p] \in HoldsLock /\ loc[p].cover = <<>> /\ loc'[p].cover # <<>>) =>
            /\ loc[p].primary # <<>>
            /\ loc[p].stats # <<>>
            /\ PublishedRecords = loc[p].enhanced]_vars

\* the three commands have been run in one rebuild
C28_Witness ==
    \E p \in Procs :
        /\ pc[p] = "nextpoll"
        /\ loc[p].primary # <<>>
        /\ loc[p].stats # <<>>
        /\ loc[p].cover # <<>>
        /\ \E i \in DOMAIN metrics : metrics[i].name = "datapathDrops"

\* ---------------------------------------------------------------------------
\* One field family per line
\* ---------------------------------------------------------------------------

\* the family of a field of the record: the group of the patterns that set it
FieldFamily(f) ==
    CASE f \in {"CPUUtilization", "IdleCycles", "BusyCycles", "Iterations",
                "UsPerIteration", "SleepIterations", "BusyIterations",
                "CyclesPerIteration", "CyclesPerPacket"} -> "cycles"
      [] f \in {"PacketsPerIteration", "PacketsPerBatch", "RxBatches",
                "AvgRxBatchSize", "MaxRxBatchSize", "RxPackets", "TxBatches",
                "AvgTxBatchSize", "TxPackets"} -> "throughput"
      [] f \in {"MaxVhostQueueLength", "AvgVhostQueueLength", "VhostQueueFull",
                "VhostTxRetries", "VhostTxContention", "VhostTxIrqs",
                "TxRetries", "TxContention", "TxIrqs"} -> "queueing"
      [] f \in {"Upcalls", "UpcallCycles", "AvgUpcallCycles"} -> "upcalls"
      [] f \in {"ExactMatchHit", "MaskedHit", "Miss", "Lost"} -> "cache"
      [] f \in {"SuspiciousIterations", "SuspiciousPercent"} -> "anomaly"
      [] OTHER -> "other"

\* the fields of the record in progress that the step changes
FieldsChanged == {f \in DOMAIN currentMetric[1] : currentMetric'[1][f] # currentMetric[1][f]}

\* C29: a line offered to the field matcher set updates the fields of at most
\* one field family, also when it satisfies the patterns of several families
C29_AtMostOneFamily ==
    [][ScansFieldLine =>
            \A f \in FieldsChanged : \A g \in FieldsChanged :
                FieldFamily(f) = FieldFamily(g)]_vars

\* ---------------------------------------------------------------------------
\* The two states of the record builder
\* ---------------------------------------------------------------------------

\* a thread header is among the lines scanned so far
HeaderScanned == \E j \in 1..pos : HdrAt(j)

\* C30: the builder has no record in progress exactly until the first header
\* line is scanned: the lines before it create no record, no histogram map and
\* select no histogram; from the first header on a record is in progress up to
\* the end of the input, where the record in progress is appended as the last
\* record of the list, with its derived totals in the enhanced builder (both
\* record builders)
C30_TwoStateBuilder ==
    (parser \in {"enhanced", "basic"}) =>
        /\ currentMetric = <<>> <=> ~HeaderScanned
        /\ ~HeaderScanned =>
            /\ pmetrics = <<>>
            /\ hmaps = <<>>
            /\ currentHistogram = 0
        /\ (HeaderScanned /\ ~pdone) => Len(pmetrics) = Len(HeaderLines(SubSeq(text, 1, pos))) - 1
        /\ pdone =>
            /\ pos = Len(text)
            /\ Len(pmetrics) = Len(HeaderLines(text))
            /\ HeaderScanned =>
                pmetrics[Len(pmetrics)] = IF parser = "enhanced"
                                          THEN DerivedFields(currentMetric[1])
                                          ELSE currentMetric[1]

\* field and entry lines before the first header, a field line after it, parsed
C30_Witness ==
    /\ pdone
    /\ Len(text) = 4
    /\ text[1] = "Iter" /\ EntryAt(2) /\ HdrAt(3) /\ text[4] = "Iter"
    /\ Len(LastParse.out) = 1
    /\ LastParse.out[1].Iterations = 100

\* ---------------------------------------------------------------------------
\* The up flag
\* ---------------------------------------------------------------------------

\* the step takes the up value of the rebuild of p from 1 to 0
UpDrops(p) == loc[p].upValue = 1 /\ loc'[p].upValue = 0

\* the step is the one of p at this label and counts a failure
FailsAt(p, label) == pc[p] = label /\ pc'[p] # label /\ errors' > errors

\* the step appends the summary samples of the rebuild of p
Summarizes(p) == pc[p] = "summary" /\ pc'[p] # "summary"

\* the up sample that the step appends carries the up value of the rebuild
UpSampleIsUpValue(p) ==
    /\ Len(metrics') = Len(metrics) + 4
    /\ metrics'[Len(metrics) + 1].name = "up"
    /\ metrics'[Len(metrics) + 1].val = loc[p].upValue

\* C31 as stated: the up value of a rebuild falls to 0 only where the
\* system-status query fails; the failure of any other source leaves it at 1
C31_DownOnlyByStatusQuery ==
    [][\A p \in Procs : UpDrops(p) => FailsAt(p, "sysinfo")]_vars

\* C31: the up sample of a snapshot is the up value of its rebuild, which is 1
\* when the rebuild starts and is set to 0 exactly by a failure of the
\* system-status query or of the process query of either daemon; the failure
\* of any other source leaves it as it is
C31_DownByStatusOrProcessQuery ==
    [][\A p \in Procs :
        /\ UpDrops(p) => FailsAt(p, "sysinfo") \/ FailsAt(p, "process")
        /\ FailsAt(p, "sysinfo") \/ FailsAt(p, "process") => loc'[p].upValue = 0
        /\ (pc[p] = "clear" /\ pc'[p] # "clear") => loc'[p].upValue = 1
        /\ Summarizes(p) => UpSampleIsUpValue(p)
      ]_vars

\* a rebuild met one failure and published an up sample of 0: the failure
\* was the one of the system-status query or of a process query
C31_Witness ==
    \E p \in Procs :
        /\ pc[p] = "rlock"
        /\ loc[p].failures = 1
        /\ \E i \in DOMAIN metrics :
            metrics[i].name = "up" /\ metrics[i].build = loc[p].build /\ metrics[i].val = 0

\* ---------------------------------------------------------------------------
\* Busy iterations
\* ---------------------------------------------------------------------------

\* block b of the text has a sleep-iterations line
SleepLineIn(b) ==
    \E j \in 1..Len(text) : BlockOf(j) = b /\ Match("sleepIterRe", text[j]) # NoMatch

\* C32: in every record of the enhanced builder whose block has a
\* sleep-iterations line, BusyIterations + SleepIterations = Iterations and
\* BusyIterations is a count from 0 to Iterations, not a difference that
\* wrapped around (a wrapped uint64 is a negative number here), whatever the
\* order and the values of the iterations and sleep-iterations lines
C32_BusyIterationsConsistent ==
    (pdone /\ parser = "enhanced" /\ parses # <<>>) =>
        \A b \in DOMAIN LastParse.out :
            SleepLineIn(b) =>
                LET r == LastParse.out[b] IN
                /\ r.BusyIterations + r.SleepIterations = r.Iterations
                /\ r.BusyIterations >= 0
                /\ r.BusyIterations <= r.Iterations

\* ---------------------------------------------------------------------------
\* The next-poll sample
\* ---------------------------------------------------------------------------

\* C33: while no rebuild is going on, the next-poll sample of the published
\* list carries the next-allowed-poll time the exporter holds, which the
\* rebuild that published the list recorded
C33_NextPollSampleIsTicker ==
    rwWriter = "none" =>
        \A i \in DOMAIN metrics :
            metrics[i].name = "nextPoll" =>
                /\ metrics[i].val = nextCollectionTicker
                /\ metrics[i].val = builds.ticker

\* ---------------------------------------------------------------------------
\* The request counters
\* ---------------------------------------------------------------------------

\* C34: while no rebuild is going on, the count of failed requests is at most
\* the count of requests, in the exporter and in the samples it published
C34_FailedAtMostTotal ==
    rwWriter = "none" =>
        /\ errors <= totalRequests
        /\ \A i \in DOMAIN metrics : \A j \in DOMAIN metrics :
            (metrics[i].name = "requestErrors" /\ metrics[j].name = "requestsTotal")
                => metrics[i].val <= metrics[j].val

\* ---------------------------------------------------------------------------
\* The samples every snapshot has
\* ---------------------------------------------------------------------------

SummaryNames == {"up", "info", "requestErrors", "requestsTotal", "nextPoll"}

\* the positions of the published list that hold a sample of this name
SamplesNamed(name) == {i \in DOMAIN metrics : metrics[i].name = name}

\* C35: once a rebuild has begun, whenever no rebuild is going on the published
\* list holds exactly one up, one info, one failed-requests, one total-requests
\* and one next-poll sample, whichever sources failed; so a reader that holds
\* the read lock finds the list non-empty
C35_SummarySamplesOnce ==
    (rwWriter = "none" /\ builds.begun > 0) =>
        /\ \A name \in SummaryNames : Cardinality(SamplesNamed(name)) = 1
        /\ \A p \in Procs : pc[p] \in {"read", "runlock"} => metrics # <<>>

\* a reader holds the read lock on the list of a rebuild that met failures of
\* three sources or more
C35_Witness ==
    \E p \in Procs :
        /\ pc[p] = "read"
        /\ p \in rwReaders
        /\ loc[p].failures >= 3
        /\ builds.begun = 1
        /\ \A name \in SummaryNames : Cardinality(SamplesNamed(name)) = 1

\* ---------------------------------------------------------------------------
\* One path for the worker-thread samples
\* ---------------------------------------------------------------------------

\* the identities of the samples of this name in the list
IdentitiesOf(name) == {metrics[i].label : i \in SamplesNamed(name)}

\* C36: the basic collection runs only in a rebuild whose enhanced collection
\* returned an error, and then the list holds no enhanced sample; so no list
\* holds both an enhanced and a basic sample, and no thread identity is
\* emitted by both paths
C36_OnePmdPath ==
    /\ \A p \in Procs :
        pc[p] = "pmd_basic" =>
            /\ loc[p].perr # ""
            /\ loc[p].enhanced = <<>>
            /\ SamplesNamed("pmdEnhanced") = {}
    /\ SamplesNamed("pmdEnhanced") = {} \/ SamplesNamed("pmdBasic") = {}
    /\ IdentitiesOf("pmdEnhanced") \cap IdentitiesOf("pmdBasic") = {}

\* the enhanced collection failed and the basic one, asking again, emitted the
\* samples of a thread
C36_Witness ==
    \E p \in Procs :
        /\ pc[p] = "nextpoll"
        /\ loc[p].perr # ""
        /\ IdentitiesOf("pmdBasic") = {<<"0", "1">>}
        /\ SamplesNamed("pmdEnhanced") = {}

\* ---------------------------------------------------------------------------
\* The lock is released
\* ---------------------------------------------------------------------------

\* C37: a call that holds the lock for writing releases it in the end; a call
\* that waits for the lock, for writing in GatherMetrics or for reading in
\* Collect, gets it in the end; and a call that is past GatherMetrics, by
\* whatever path, does not hold the lock for writing
C37_LockReleased ==
    /\ \A p \in Procs : (rwWriter = p) ~> (rwWriter # p)
    /\ \A p \in Procs : (pc[p] = "lock") ~> (pc[p] = "clear")
    /\ \A p \in Procs : (pc[p] = "rlock") ~> (pc[p] = "read")
    /\ [](\A p \in Procs : pc[p] \in {"idle", "rlock", "read", "runlock"} => rwWriter # p)

\* one call waits for the write lock that the rebuild of the other holds, in
\* a rebuild that met a failure
C37_Witness ==
    \E p \in Procs : \E q \in Procs :
        /\ pc[p] = "lock"
        /\ rwWriter = q
        /\ q # p
        /\ loc[q].failures > 0

\* ---------------------------------------------------------------------------
\* The shared state is accessed under the lock
\* ---------------------------------------------------------------------------

\* the call is at the rate-limit check, which reads e.nextCollectionTicker
ReadsTicker(p) == pc[p] = "check"

\* the call is at the assignment to e.nextCollectionTicker
WritesTicker(p) == pc[p] = "settick"

\* C38: a call that reads or writes the next-allowed-poll time or the
\* published list holds the lock, for reading or for writing as the access
\* requires, so no call reads the next-allowed-poll time while the rebuild of
\* another is at the point of writing it
C38_AccessUnderLock ==
    \A p \in Procs :
        /\ pc[p] \in Sourcing \cup {"clear"} => rwWriter = p
        /\ pc[p] = "read" => p \in rwReaders
        /\ \A q \in Procs : ~(ReadsTicker(p) /\ WritesTicker(q))
        /\ ReadsTicker(p) => (rwWriter = p \/ p \in rwReaders)

\* ---------------------------------------------------------------------------
\* Finalized records are left alone
\* ---------------------------------------------------------------------------

\* the lines of block b: its header line and the lines up to the next header
BlockLines(b) == SelectSeq([j \in 1..Len(text) |-> IF BlockOf(j) = b THEN <<text[j]>> ELSE <<>>],
                           LAMBDA x : x # <<>>)

\* the record in progress after the scanning loop has taken the lines of block
\* b and no other line, each histogram field holding its map
BlockAlone(b) ==
    LET lines == [j \in 1..Len(BlockLines(b)) |-> BlockLines(b)[j][1]] IN
    IF parser = "enhanced"
    THEN LET st == EnhancedScan(BuilderInit, lines, 1) IN
         [st.cur[1] EXCEPT !.CyclesHistogram = st.maps[@],
                           !.PacketsHistogram = st.maps[@],
                           !.BatchSizeHistogram = st.maps[@]]
    ELSE BasicScan(BuilderInit, lines, 1).cur[1]

\* record i of the list built so far, each histogram field holding its map
Finalized(i) ==
    IF parser = "enhanced" THEN Records(Builder)[i] ELSE pmetrics[i]

\* C39: at every point of the scan, a record that a header line appended to
\* the list is what the lines of its own block made it, histogram maps
\* included: no line after the header that appended it has changed it (both
\* record builders)
C39_FinalizedRecordsFrozen ==
    (parser \in {"enhanced", "basic"}) =>
        \A i \in DOMAIN pmetrics :
            i < Len(HeaderLines(SubSeq(text, 1, pos))) => Finalized(i) = BlockAlone(i)

\* a block with a section line, then a header and an entry line, parsed: the
\* entry line comes while the first record is in the list
C39_Witness ==
    /\ pdone
    /\ parser = "enhanced"
    /\ text = <<"H01", "HCycles", "H12", "E7">>
    /\ Len(LastParse.out) = 2
    /\ LastParse.out[1].CyclesHistogram = EmptyMap

====
